---- MODULE Spec2Model ----
(***************************************************************************)
(* A model of the plugin host: the service registry                        *)
(* (src/src/service_registry.rs), the dependency resolver and the host     *)
(* orchestrator (src/src/host.rs), the loader (src/src/loader.rs) and the  *)
(* callback bridge (src/src/callbacks.rs).                                 *)
(***************************************************************************)
EXTENDS Integers, Sequences, FiniteSets, TLC

(***************************************************************************)
(* Bounds of the model.                                                    *)
(***************************************************************************)
\* the patch component of a ServiceVersion ranges over 0..MaxPatch
MaxPatch == 1
\* a manifest's depends_on lists at most MaxDeps ids
MaxDeps == 2

VARIABLES
    services,         \* ServiceRegistry.services: service id -> RegisteredService
    ret,              \* the value the last call returned
    plugins,          \* PluginHost.plugins: plugin id -> InstalledPlugin
    packages,         \* PluginHost.packages: package id -> InstalledPackage
    loaded,           \* PluginHost.loaded: plugin id -> LoadedPlugin
    callback_bridge,  \* PluginHost.callback_bridge: the CallbackBridge the host owns
    install_status,   \* PluginHost.install_status: package id -> InstallStatus
    registry,         \* PluginHost.registry: whether a RegistryClient is configured
    disk,             \* the plugins directory: what scan_installed would find
    calls,            \* the calls the last host operation made into plugins and the registry
    lock,             \* the RwLock around ServiceRegistry.services
    thr,              \* per thread: where it is in a registry method, and its arguments
    wins,             \* per service id: register calls that returned Ok since the id was last absent
    hosts,            \* the PluginHost instances of the process: host -> its state
    CURRENT_CALLBACKS,        \* thread_local: per thread, the callbacks object set last
    CURRENT_SERVICE_REGISTRY  \* thread_local: per thread, the registry set last

vars ==
    <<services, ret, plugins, packages, loaded, callback_bridge, install_status,
      registry, disk, calls, lock, thr, wins, hosts, CURRENT_CALLBACKS,
      CURRENT_SERVICE_REGISTRY>>
hostVars == <<plugins, packages, loaded, callback_bridge, install_status, registry>>
processVars == <<hosts, CURRENT_CALLBACKS, CURRENT_SERVICE_REGISTRY>>
envVars == <<disk, calls, processVars>>
concVars == <<lock, thr, wins>>

(***************************************************************************)
(* Values.                                                                 *)
(***************************************************************************)
ServiceIds == {"svc.a", "svc.b"}
\* providers are plugin ids; a handle is named by the allocation it points into
Providers == {1, 2}
Handles == {1, 2}
Majors == {1, 2}
Minors == {0, 1}
Versions == {<<ma, mi, pa>> : ma \in Majors, mi \in Minors, pa \in 0..MaxPatch}
Descriptors == [id : ServiceIds, version : Versions, provider_id : Providers]

Ok == [tag |-> "Ok"]
\* a method returning (): what it logged through tracing::info! is kept as observable
Unit(logged) == [tag |-> "Unit", logged |-> logged]
None == [tag |-> "None"]
Some(h) == [tag |-> "Some", handle |-> h]
Found(h) == [tag |-> "Handle", handle |-> h]
Bool(b) == [tag |-> "Bool", value |-> b]
Count(n) == [tag |-> "Count", value |-> n]
Listing(ds) == [tag |-> "List", descriptors |-> ds]
Err(kind, what) == [tag |-> kind, what |-> what]

(***************************************************************************)
(* ServiceVersion::is_compatible_with lives in the lib_plugin_abi crate;   *)
(* it is modelled from the compatibility rule of the data model: same      *)
(* major, and a higher minor or the same minor with patch at least the     *)
(* requested one.                                                          *)
(***************************************************************************)
is_compatible_with(p, r) ==
    /\ p[1] = r[1]
    /\ \/ p[2] > r[2]
       \/ p[2] = r[2] /\ p[3] >= r[3]

(***************************************************************************)
(* ServiceRegistry.  Each operation takes the map and returns what the     *)
(* method leaves in it and what it returns.  Every method holds the        *)
(* RwLock guard from its first statement to its return.                    *)
(***************************************************************************)
Without(svcs, ids) == [s \in (DOMAIN svcs) \ ids |-> svcs[s]]

RegisteredService(d, h) == [descriptor |-> d, handle |-> h]

contains_key(svcs, id) == id \in DOMAIN svcs

insert(svcs, id, entry) == (id :> entry) @@ svcs

register_overwrite(svcs, d, h) ==
    [services |-> insert(svcs, d.id, RegisteredService(d, h)),
     result   |-> Ok]

register(svcs, d, h) ==
    IF contains_key(svcs, d.id)
    THEN [services |-> svcs, result |-> Err("AlreadyRegistered", d.id)]
    ELSE [services |-> insert(svcs, d.id, RegisteredService(d, h)),
          result   |-> Ok]

lookup(svcs, service_id) ==
    IF service_id \in DOMAIN svcs THEN Some(svcs[service_id].handle) ELSE None

lookup_versioned_unchecked(svcs, service_id, min_version) ==
    IF service_id \notin DOMAIN svcs
    THEN Err("NotFound", service_id)
    ELSE Found(svcs[service_id].handle)

lookup_versioned(svcs, service_id, min_version) ==
    IF service_id \notin DOMAIN svcs
    THEN Err("NotFound", service_id)
    ELSE IF ~is_compatible_with(svcs[service_id].descriptor.version, min_version)
         THEN Err("VersionMismatch", service_id)
         ELSE Found(svcs[service_id].handle)

list(svcs) == {svcs[s].descriptor : s \in DOMAIN svcs}

unregister_provider_first_only(svcs, provider_id) ==
    LET to_remove == {s \in DOMAIN svcs : svcs[s].descriptor.provider_id = provider_id}
    IN  IF to_remove = {} THEN svcs
        ELSE Without(svcs, {CHOOSE s \in to_remove : TRUE})

unregister_provider(svcs, provider_id) ==
    LET to_remove == {s \in DOMAIN svcs : svcs[s].descriptor.provider_id = provider_id}
    IN  Without(svcs, to_remove)

has_service(svcs, service_id) == service_id \in DOMAIN svcs

len(svcs) == Cardinality(DOMAIN svcs)

is_empty(svcs) == len(svcs) = 0

EmptyMap == << >>

EmptyRegistry == EmptyMap

(***************************************************************************)
(* The registry driven through its public methods.                         *)
(***************************************************************************)
RegRegister(d, h) ==
    /\ services' = register(services, d, h).services
    /\ ret' = register(services, d, h).result
    /\ UNCHANGED <<hostVars, envVars, concVars>>

RegLookup(id) ==
    /\ ret' = lookup(services, id)
    /\ UNCHANGED <<services, hostVars, envVars, concVars>>

RegLookupVersioned(id, min) ==
    /\ ret' = lookup_versioned(services, id, min)
    /\ UNCHANGED <<services, hostVars, envVars, concVars>>

RegList ==
    /\ ret' = Listing(list(services))
    /\ UNCHANGED <<services, hostVars, envVars, concVars>>

RegUnregisterProvider(p) ==
    /\ services' = unregister_provider(services, p)
    /\ ret' = Unit((DOMAIN services) \ DOMAIN services')
    /\ UNCHANGED <<hostVars, envVars, concVars>>

RegHasService(id) ==
    /\ ret' = Bool(has_service(services, id))
    /\ UNCHANGED <<services, hostVars, envVars, concVars>>

RegLen ==
    /\ ret' = Count(len(services))
    /\ UNCHANGED <<services, hostVars, envVars, concVars>>

RegIsEmpty ==
    /\ ret' = Bool(is_empty(services))
    /\ UNCHANGED <<services, hostVars, envVars, concVars>>

\* the host instances of a process and the threads that run plugin code:
\* hosts are created and used on the main thread, a plugin may spawn a worker
HostNames == {"A", "B"}
OsThreads == {"main", "worker"}
NoHost == "none"

\* a process in which no PluginHost was created: the thread-locals hold None
ProcessIdle ==
    /\ hosts = [h \in HostNames |->
                  [alive |-> FALSE, services |-> EmptyMap, config |-> {}, loaded |-> {}]]
    /\ CURRENT_CALLBACKS = [t \in OsThreads |-> NoHost]
    /\ CURRENT_SERVICE_REGISTRY = [t \in OsThreads |-> NoHost]

\* the host as constructed, before any scan
HostIdle ==
    /\ plugins = EmptyMap
    /\ packages = EmptyMap
    /\ loaded = EmptyMap
    /\ callback_bridge = 0
    /\ install_status = EmptyMap
    /\ registry = FALSE
    /\ disk = EmptyMap
    /\ calls = << >>
    /\ ProcessIdle

Threads == {"t1", "t2"}
NoThread == "none"

\* no thread is inside a registry method
ConcIdle ==
    /\ lock = [writer |-> NoThread, readers |-> {}]
    /\ thr = [t \in Threads |-> [pc |-> "idle"]]
    /\ wins = [s \in ServiceIds |-> 0]

RegInit ==
    /\ services = EmptyRegistry
    /\ ret = Ok
    /\ HostIdle
    /\ ConcIdle

RegNext ==
    \/ \E d \in Descriptors, h \in Handles : RegRegister(d, h)
    \/ \E id \in ServiceIds : RegLookup(id)
    \/ \E id \in ServiceIds, min \in Versions : RegLookupVersioned(id, min)
    \/ RegList
    \/ \E p \in Providers : RegUnregisterProvider(p)
    \/ \E id \in ServiceIds : RegHasService(id)
    \/ RegLen
    \/ RegIsEmpty

SpecReg == RegInit /\ [][RegNext]_vars

(***************************************************************************)
(* Properties of the registry.                                             *)
(***************************************************************************)
ProviderOf(svcs, s) == svcs[s].descriptor.provider_id

\* C3: once register(d, h) has succeeded for id s, lookup(s) returns h and
\* has_service(s) is true in every later state until the first
\* unregister_provider(d.provider_id); no other registry operation removes
\* or replaces the entry.
C3_RegisteredUntilUnregistered ==
    [][ /\ (ret' = Ok)
              => \A d \in Descriptors, h \in Handles :
                    RegRegister(d, h)
                        => /\ lookup(services', d.id) = Some(h)
                           /\ has_service(services', d.id)
                           /\ services'[d.id].descriptor = d
        /\ \A s \in DOMAIN services :
              ~(ret'.tag = "Unit" /\ RegUnregisterProvider(ProviderOf(services, s)))
                  => /\ has_service(services', s)
                     /\ lookup(services', s) = lookup(services, s)
                     /\ services'[s] = services[s] ]_vars

\* an entry is in the registry and a later lookup has just returned its handle
C3_Witness ==
    \E s \in DOMAIN services : ret = Some(services[s].handle)

\* (minor, patch) compared lexicographically, as one number in base MaxPatch + 1
MinorPatch(v) == v[2] * (MaxPatch + 1) + v[3]

Satisfies(p, r) == p[1] = r[1] /\ MinorPatch(p) >= MinorPatch(r)

\* C5: lookup_versioned(s, r) returns the stored handle iff an entry with id s
\* exists whose version p has p.major = r.major and (p.minor, p.patch) >=
\* (r.minor, r.patch) lexicographically; NotFound when no entry with id s
\* exists, VersionMismatch when the entry is incompatible; the registry is
\* never changed.
C5_LookupVersioned ==
    [][ \A s \in ServiceIds, r \in Versions :
          (ret'.tag \in {"Handle", "NotFound", "VersionMismatch"}
             /\ RegLookupVersioned(s, r))
              => /\ services' = services
                 /\ IF s \notin DOMAIN services
                    THEN ret' = Err("NotFound", s)
                    ELSE IF Satisfies(services[s].descriptor.version, r)
                         THEN ret' = Found(services[s].handle)
                         ELSE ret' = Err("VersionMismatch", s) ]_vars

\* a versioned lookup has just been refused for a service that is registered
C5_Witness ==
    /\ ret.tag = "VersionMismatch"
    /\ ret.what \in DOMAIN services

\* C6: unregister_provider(p) removes exactly the entries whose
\* descriptor.provider_id equals p and leaves every other entry unchanged;
\* len() decreases by exactly the number of p's entries.
C6_UnregisterFrame ==
    [][ \A p \in Providers :
          (ret'.tag = "Unit" /\ RegUnregisterProvider(p))
              => LET mine == {s \in DOMAIN services : ProviderOf(services, s) = p}
                 IN  /\ DOMAIN services' = (DOMAIN services) \ mine
                     /\ \A s \in DOMAIN services' : services'[s] = services[s]
                     /\ len(services') = len(services) - Cardinality(mine) ]_vars

\* unregister_provider has just removed an entry and left another provider's
C6_Witness ==
    /\ ret.tag = "Unit"
    /\ ret.logged # {}
    /\ services # EmptyRegistry

\* C7: unregister_provider is idempotent: for every registry state and
\* provider p, a second unregister_provider(p) changes nothing, and for a
\* provider with no entries the first changes nothing either.
C7_UnregisterIdempotent ==
    \A p \in Providers :
        LET once == unregister_provider(services, p)
        IN  /\ unregister_provider(once, p) = once
            /\ (\A s \in DOMAIN services : ProviderOf(services, s) # p)
                   => once = services

\* a provider holds both service ids, so one call has two entries to remove
C7_Witness ==
    /\ DOMAIN services = ServiceIds
    /\ \E p \in Providers : \A s \in DOMAIN services : ProviderOf(services, s) = p

(***************************************************************************)
(* The registry called from several threads.  A method first takes the     *)
(* RwLock (write() in register and unregister_provider, read() in lookup), *)
(* runs its statements holding the guard, and drops the guard on return.   *)
(* A thread registers its own handle.                                      *)
(***************************************************************************)
ConcVersion == <<1, 0, 0>>
ConcDescriptors == [id : ServiceIds, version : {ConcVersion}, provider_id : Providers]
HandleOf(t) == IF t = "t1" THEN 1 ELSE 2

write_available_unguarded(lk) == TRUE

\* RwLock::write returns once no reader and no writer holds the lock
write_available(lk) == lk.writer = NoThread /\ lk.readers = {}

read_available_unguarded(lk) == TRUE

\* RwLock::read returns once no writer holds the lock
read_available(lk) == lk.writer = NoThread

release_write(lk) == [lk EXCEPT !.writer = NoThread]

\* a reading method that returns with its guard alive
release_read_kept(lk, t) == lk

release_read(lk, t) == [lk EXCEPT !.readers = @ \ {t}]

Bump(n) == IF n < 2 THEN n + 1 ELSE 2

\* a thread calls register, unregister_provider or lookup and blocks on the lock
ConcCallRegister(t, d) ==
    /\ thr[t].pc = "idle"
    /\ thr' = [thr EXCEPT ![t] = [pc |-> "register_lock", d |-> d]]
    /\ UNCHANGED <<services, ret, hostVars, envVars, lock, wins>>

ConcCallUnregisterProvider(t, p) ==
    /\ thr[t].pc = "idle"
    /\ thr' = [thr EXCEPT ![t] = [pc |-> "unregister_lock", provider_id |-> p]]
    /\ UNCHANGED <<services, ret, hostVars, envVars, lock, wins>>

ConcCallLookup(t, id) ==
    /\ thr[t].pc = "idle"
    /\ thr' = [thr EXCEPT ![t] = [pc |-> "lookup_lock", service_id |-> id]]
    /\ UNCHANGED <<services, ret, hostVars, envVars, lock, wins>>

ConcAcquireWrite(t) ==
    /\ thr[t].pc \in {"register_lock", "unregister_lock"}
    /\ write_available(lock)
    /\ lock' = [lock EXCEPT !.writer = t]
    /\ thr' = [thr EXCEPT ![t].pc =
                  IF thr[t].pc = "register_lock" THEN "register_check"
                  ELSE "unregister_body"]
    /\ UNCHANGED <<services, ret, hostVars, envVars, wins>>

ConcAcquireRead(t) ==
    /\ thr[t].pc = "lookup_lock"
    /\ read_available(lock)
    /\ lock' = [lock EXCEPT !.readers = @ \cup {t}]
    /\ thr' = [thr EXCEPT ![t].pc = "lookup_body"]
    /\ UNCHANGED <<services, ret, hostVars, envVars, wins>>

\* register: if services.contains_key(&id) { return Err(already_registered) }
ConcRegisterCheck(t) ==
    /\ thr[t].pc = "register_check"
    /\ IF contains_key(services, thr[t].d.id)
       THEN /\ ret' = Err("AlreadyRegistered", thr[t].d.id)
            /\ lock' = release_write(lock)
            /\ thr' = [thr EXCEPT ![t] = [pc |-> "idle"]]
       ELSE /\ thr' = [thr EXCEPT ![t].pc = "register_insert"]
            /\ UNCHANGED <<ret, lock>>
    /\ UNCHANGED <<services, hostVars, envVars, wins>>

\* register: services.insert(id, RegisteredService { descriptor, handle }); Ok(())
ConcRegisterInsert(t) ==
    /\ thr[t].pc = "register_insert"
    /\ services' = insert(services, thr[t].d.id,
                          RegisteredService(thr[t].d, HandleOf(t)))
    /\ ret' = Ok
    /\ wins' = [wins EXCEPT ![thr[t].d.id] = Bump(@)]
    /\ lock' = release_write(lock)
    /\ thr' = [thr EXCEPT ![t] = [pc |-> "idle"]]
    /\ UNCHANGED <<hostVars, envVars>>

ConcUnregisterProvider(t) ==
    /\ thr[t].pc = "unregister_body"
    /\ services' = unregister_provider(services, thr[t].provider_id)
    /\ ret' = Unit((DOMAIN services) \ DOMAIN services')
    /\ wins' = [s \in ServiceIds |-> IF s \in DOMAIN services' THEN wins[s] ELSE 0]
    /\ lock' = release_write(lock)
    /\ thr' = [thr EXCEPT ![t] = [pc |-> "idle"]]
    /\ UNCHANGED <<hostVars, envVars>>

ConcLookup(t) ==
    /\ thr[t].pc = "lookup_body"
    /\ ret' = lookup(services, thr[t].service_id)
    /\ lock' = release_read(lock, t)
    /\ thr' = [thr EXCEPT ![t] = [pc |-> "idle"]]
    /\ UNCHANGED <<services, hostVars, envVars, wins>>

ConcInit ==
    /\ services = EmptyRegistry
    /\ ret = Ok
    /\ HostIdle
    /\ ConcIdle

ConcNext ==
    \E t \in Threads :
        \/ \E d \in ConcDescriptors : ConcCallRegister(t, d)
        \/ \E p \in Providers : ConcCallUnregisterProvider(t, p)
        \/ \E id \in ServiceIds : ConcCallLookup(t, id)
        \/ ConcAcquireWrite(t)
        \/ ConcAcquireRead(t)
        \/ ConcRegisterCheck(t)
        \/ ConcRegisterInsert(t)
        \/ ConcUnregisterProvider(t)
        \/ ConcLookup(t)

SpecRegConc == ConcInit /\ [][ConcNext]_vars

\* C4: register with an id that is already present always fails with
\* AlreadyRegistered and leaves the registry unchanged (the first descriptor
\* and handle stand); under any interleaving of concurrent register calls for
\* the same id exactly one succeeds: whenever no writer is inside the
\* registry, an id is present iff exactly one register call for it has
\* returned Ok since it was last absent.
C4_DuplicateRegisterFails ==
    [][ /\ \A t \in Threads :
              (thr[t].pc = "register_check" /\ thr'[t].pc # "register_check")
                  => IF contains_key(services, thr[t].d.id)
                     THEN /\ thr'[t].pc = "idle"
                          /\ ret' = Err("AlreadyRegistered", thr[t].d.id)
                          /\ services' = services
                     ELSE thr'[t].pc = "register_insert"
        /\ \A s \in DOMAIN services :
              s \in DOMAIN services' => services'[s] = services[s]
        /\ (lock'.writer = NoThread)
              => \A s \in ServiceIds :
                    wins'[s] = IF contains_key(services', s) THEN 1 ELSE 0 ]_vars

\* a register has just failed with AlreadyRegistered against the entry the
\* other thread registered
C4_Witness ==
    /\ ret.tag = "AlreadyRegistered"
    /\ wins[ret.what] = 1
    /\ \E t \in Threads : services[ret.what].handle = HandleOf(t)

(***************************************************************************)
(* The host orchestrator.  A host state is the record                      *)
(* [plugins, packages, loaded, services, callback_bridge]; an operation    *)
(* maps it to the set of outcomes {[state, result]} it can end in, one per *)
(* behaviour of the file system and of the plugin binaries it calls.       *)
(***************************************************************************)
NoError == [tag |-> "NoError"]

\* a path under the plugins directory: the subdirectory, the version
\* directory under it ("" in the flat layout) and, for a plugin of a
\* multi-plugin package, the directory plugins/<id> under that (0 for none)
Path(dir, version, plugin) == [dir |-> dir, version |-> version, plugin |-> plugin]

InstalledPlugin(deps, pkg) ==
    [manifest |-> [depends_on |-> deps, requires |-> << >>],
     path |-> Path(pkg, "", 0), package_id |-> pkg, enabled |-> FALSE]

\* an entry of manifest.requires; min_version is None or Some version string
Requirement(id, min_version, optional) ==
    [id |-> id, min_version |-> min_version, optional |-> optional]

VersionString(text) == [tag |-> "Some", text |-> text]

ServiceNotAvailable(service, error) ==
    [tag |-> "ServiceNotAvailable", service |-> service, error |-> error]

InstalledPackage(ids, path) == [plugin_ids |-> ids, path |-> path]

\* LoadedPlugin: context.host is the HostVTable the plugin was loaded with
LoadedPlugin(host_vtable) ==
    [context |-> [host |-> host_vtable], initialized |-> FALSE]

\* the host at the start of an operation: it has made no call yet
HostState ==
    [plugins |-> plugins, packages |-> packages, loaded |-> loaded,
     services |-> services, callback_bridge |-> callback_bridge,
     install_status |-> install_status, registry |-> registry,
     disk |-> disk, calls |-> << >>]

\* a call into a plugin binary (or, for unregister_provider, into the
\* registry on behalf of a plugin) and the code it returned
Called(entry, plugin_id, rc) == [entry |-> entry, plugin |-> plugin_id, rc |-> rc]

\* the host makes these calls, one after the other, with the registry as it
\* is in hs: each is logged with the registry it started with
called(hs, events) ==
    [hs EXCEPT !.calls =
        @ \o [i \in DOMAIN events |->
                 [entry |-> events[i].entry, plugin |-> events[i].plugin,
                  rc |-> events[i].rc, registry |-> hs.services]]]

Outcome(hs, result) == [state |-> hs, result |-> result]

(***************************************************************************)
(* Dependency resolver: visit_deps threads visited, in_progress and result *)
(* through the depth-first traversal; err is the Err it returned, if any.  *)
(***************************************************************************)
RECURSIVE visit_deps(_, _, _)
RECURSIVE visit_each(_, _, _, _)

\* the loop without `if !self.plugins.contains_key(dep)`
RECURSIVE visit_each_unchecked(_, _, _, _)
visit_each_unchecked(inv, deps, i, st) ==
    IF i > Len(deps) THEN st
    ELSE LET st1 == visit_deps(inv, deps[i], st)
         IN  IF st1.err # NoError THEN st1
             ELSE visit_each_unchecked(inv, deps, i + 1, st1)

\* visit_deps without `if visited.contains(id) { return Ok(()) }`
visit_deps_revisit(inv, id, st) ==
    IF id \in st.in_progress
    THEN [st EXCEPT !.err = Err("CircularDependency", id)]
    ELSE LET st1 == [st EXCEPT !.in_progress = @ \cup {id}]
             st2 == IF id \in DOMAIN inv
                    THEN visit_each(inv, inv[id].manifest.depends_on, 1, st1)
                    ELSE st1
         IN  IF st2.err # NoError THEN st2
             ELSE [st2 EXCEPT !.in_progress = @ \ {id},
                              !.visited = @ \cup {id},
                              !.result = Append(@, id)]

\* the loop `for dep in &plugin.manifest.compatibility.depends_on`
visit_each(inv, deps, i, st) ==
    IF i > Len(deps) THEN st
    ELSE IF deps[i] \notin DOMAIN inv
         THEN [st EXCEPT !.err = Err("DependencyNotFound", deps[i])]
         ELSE LET st1 == visit_deps(inv, deps[i], st)
              IN  IF st1.err # NoError THEN st1
                  ELSE visit_each(inv, deps, i + 1, st1)

visit_deps(inv, id, st) ==
    IF id \in st.visited THEN st
    ELSE IF id \in st.in_progress
         THEN [st EXCEPT !.err = Err("CircularDependency", id)]
         ELSE LET st1 == [st EXCEPT !.in_progress = @ \cup {id}]
                  st2 == IF id \in DOMAIN inv
                         THEN visit_each(inv, inv[id].manifest.depends_on, 1, st1)
                         ELSE st1
              IN  IF st2.err # NoError THEN st2
                  ELSE [st2 EXCEPT !.in_progress = @ \ {id},
                                   !.visited = @ \cup {id},
                                   !.result = Append(@, id)]

LoadOrder(order) == [tag |-> "Ok", order |-> order]

resolve_load_order(inv, plugin_id) ==
    LET st == visit_deps(inv, plugin_id,
                         [visited |-> {}, in_progress |-> {},
                          result |-> << >>, err |-> NoError])
    IN  IF st.err # NoError THEN st.err ELSE LoadOrder(st.result)

(***************************************************************************)
(* find_dependents: a worklist (a stack) over the inverse depends_on       *)
(* edges.  `iter` is the order in which `for (other_id, plugin) in         *)
(* &self.plugins` walks the HashMap: any order, the same on every pass.    *)
(***************************************************************************)
Range(seq) == {seq[i] : i \in DOMAIN seq}

RECURSIVE scan_plugins(_, _, _, _, _)
scan_plugins(inv, iter, i, id, st) ==
    IF i > Len(iter) THEN st
    ELSE LET other_id == iter[i]
         IN  IF /\ id \in Range(inv[other_id].manifest.depends_on)
                /\ other_id \notin st.checked
             THEN scan_plugins(inv, iter, i + 1, id,
                      [st EXCEPT !.dependents = Append(@, other_id),
                                 !.to_check = Append(@, other_id)])
             ELSE scan_plugins(inv, iter, i + 1, id, st)

RECURSIVE find_dependents_loop(_, _, _)
find_dependents_loop(inv, iter, st) ==
    IF st.to_check = << >> THEN st.dependents
    ELSE LET id == st.to_check[Len(st.to_check)]
             popped == [st EXCEPT !.to_check = SubSeq(@, 1, Len(@) - 1)]
         IN  IF id \in st.checked
             THEN find_dependents_loop(inv, iter, popped)
             ELSE find_dependents_loop(inv, iter,
                      scan_plugins(inv, iter, 1, id,
                          [popped EXCEPT !.checked = @ \cup {id}]))

\* find_dependents that looks one level up only
find_direct_dependents(inv, iter, plugin_id) ==
    scan_plugins(inv, iter, 1, plugin_id,
        [dependents |-> << >>, to_check |-> << >>, checked |-> {plugin_id}]).dependents

find_dependents(inv, iter, plugin_id) ==
    find_dependents_loop(inv, iter,
        [dependents |-> << >>, to_check |-> <<plugin_id>>, checked |-> {}])

\* the orders a HashMap with these keys can be walked in
IterationOrders(keys) ==
    {seq \in [1..Cardinality(keys) -> keys] : Range(seq) = keys}

Reverse(seq) == [i \in 1..Len(seq) |-> seq[Len(seq) + 1 - i]]

(***************************************************************************)
(* Plugin binaries.  What a binary does when it is opened and its init is  *)
(* called is the plugin's own: a plugin registers the services of          *)
(* ProvidesOf under its own id, with a handle into its own memory.         *)
(***************************************************************************)
ProvidesOf(plugin_id) == IF plugin_id % 2 = 1 THEN {"svc.a"} ELSE {"svc.b"}

PluginVersion == <<1, 0, 0>>

ServiceDescriptor(id, provider) ==
    [id |-> id, version |-> PluginVersion, provider_id |-> provider]

\* bridge_register_service for each service the plugin publishes; the plugin
\* sees the return code and goes on
RECURSIVE register_all(_, _, _)
register_all(svcs, provider, ids) ==
    IF ids = {} THEN svcs
    ELSE LET id == CHOOSE x \in ids : TRUE
         IN  register_all(register(svcs, ServiceDescriptor(id, provider), provider).services,
                          provider, ids \ {id})

\* the calls of bridge_register_service the plugin makes in init, each with
\* the code it returned: 0, or the code of the ServiceError
RECURSIVE register_calls(_, _, _)
register_calls(svcs, provider, ids) ==
    IF ids = {} THEN << >>
    ELSE LET id == CHOOSE x \in ids : TRUE
             r == register(svcs, ServiceDescriptor(id, provider), provider)
         IN  <<Called("register_service", provider, IF r.result = Ok THEN 0 ELSE 1)>>
             \o register_calls(r.services, provider, ids \ {id})

\* how far PluginLoader::load_and_init gets
LoadFailures == {"LoadFailed", "SymbolNotFound", "InvalidVTable", "IncompatibleApiVersion"}
InitBehaviours == {"InitOk", "InitFailed", "InitFailedAfterRegister"}

\* init that returns Ok without setting initialized
init_unmarked(plugin, svcs, plugin_id, behaviour) ==
    LET registered == IF behaviour = "InitFailed" THEN svcs
                      ELSE register_all(svcs, plugin_id, ProvidesOf(plugin_id))
    IN  [plugin |-> plugin, services |-> registered,
         result |-> IF behaviour = "InitOk" THEN Ok ELSE Err("InitFailed", plugin_id)]

\* LoadedPlugin::init: the plugin's init runs (and may register services);
\* initialized is set iff it returned 0
init(plugin, svcs, plugin_id, behaviour) ==
    LET registered == IF behaviour = "InitFailed" THEN svcs
                      ELSE register_all(svcs, plugin_id, ProvidesOf(plugin_id))
    IN  IF plugin.initialized
        THEN [plugin |-> plugin, services |-> svcs, result |-> Ok]
        ELSE IF behaviour = "InitOk"
        THEN [plugin |-> [plugin EXCEPT !.initialized = TRUE],
              services |-> registered, result |-> Ok]
        ELSE [plugin |-> plugin,
              services |-> registered, result |-> Err("InitFailed", plugin_id)]

\* LoadedPlugin::cleanup: the plugin's cleanup entry is called iff initialized
cleanup(plugin) == [plugin EXCEPT !.initialized = FALSE]

(***************************************************************************)
(* CallbackBridge.  A bridge owns the boxed HostVTable it made.  A bridge  *)
(* is named after the plugin whose enable call made it, and the bridge of  *)
(* PluginHost::with_callbacks is 0.  When enable makes a bridge for a      *)
(* plugin, that plugin is not loaded, so no loaded plugin's context holds  *)
(* that name, and the bridge the host owns under that name (if it does) is *)
(* dropped when the new one is stored: the name is as good as new.         *)
(***************************************************************************)
with_service_registry(hs, plugin_id) == plugin_id

\* `self.callback_bridge = callback_bridge`: the host now owns the new
\* bridge and the one it owned is dropped
store_bridge(hs, bridge) == bridge

\* the bridges that are alive: the one the host owns
LiveBridges == {callback_bridge}

(***************************************************************************)
(* enable and enable_single.                                               *)
(***************************************************************************)
\* ServiceVersion::parse lives in the lib_plugin_abi crate: "major.minor.patch"
\* in decimal gives the version, anything else gives None
parse(text) ==
    CASE text = "1.0.0" -> [tag |-> "Some", version |-> <<1, 0, 0>>]
      [] text = "2.0.0" -> [tag |-> "Some", version |-> <<2, 0, 0>>]
      [] OTHER -> None

\* the loop `for req in &plugin.manifest.requires` from entry i: `?` and
\* `return Err` leave it at the first entry that is not satisfied
RECURSIVE verify_each(_, _, _)
verify_each(svcs, requires, i) ==
    IF i > Len(requires) THEN Ok
    ELSE LET req == requires[i]
         IN  IF req.optional THEN verify_each(svcs, requires, i + 1)
             ELSE IF req.min_version # None
                  THEN LET min_version == parse(req.min_version.text)
                       IN  IF min_version = None
                           THEN ServiceNotAvailable(req.id, "Invalid version string")
                           ELSE LET found == lookup_versioned(svcs, req.id,
                                                              min_version.version)
                                IN  IF found.tag # "Handle"
                                    THEN ServiceNotAvailable(req.id, found.tag)
                                    ELSE verify_each(svcs, requires, i + 1)
                  ELSE IF lookup(svcs, req.id) = None
                       THEN ServiceNotAvailable(req.id, "Service not found")
                       ELSE verify_each(svcs, requires, i + 1)

\* enable_single without `self.verify_required_services(plugin_id)?`
verify_nothing(hs, plugin_id) ==
    IF plugin_id \notin DOMAIN hs.plugins
    THEN Err("PluginNotFound", plugin_id)
    ELSE Ok

verify_required_services(hs, plugin_id) ==
    IF plugin_id \notin DOMAIN hs.plugins
    THEN Err("PluginNotFound", plugin_id)
    ELSE verify_each(hs.services, hs.plugins[plugin_id].manifest.requires, 1)

\* load that calls the plugin's cleanup entry when a step fails
load_with_cleanup(plugin_id, kind) ==
    IF kind = "Ok"
    THEN <<Called("open", plugin_id, 0), Called("entry", plugin_id, 0)>>
    ELSE <<Called("open", plugin_id, 0), Called("entry", plugin_id, 0),
           Called("cleanup", plugin_id, 0), Called("drop", plugin_id, 0)>>

\* PluginLoader::load: what it calls up to the step that fails, or to its
\* end.  Library::new, then the entry symbol, then entry() and the null
\* check, then the api_version check; a library that was opened is dropped
\* when load returns Err
load(plugin_id, kind) ==
    LET open(rc) == Called("open", plugin_id, rc)
        entry(rc) == Called("entry", plugin_id, rc)
        drop == Called("drop", plugin_id, 0)
    IN  CASE kind = "LoadFailed" -> <<open(1)>>
          [] kind = "SymbolNotFound" -> <<open(0), drop>>
          [] kind = "InvalidVTable" -> <<open(0), entry(1), drop>>
          [] kind = "IncompatibleApiVersion" -> <<open(0), entry(0), drop>>
          [] OTHER -> <<open(0), entry(0)>>

\* from the new CallbackBridge to the end of enable / enable_single
load_outcomes(hs, plugin_id) ==
    LET bridge == with_service_registry(hs, plugin_id)
        fresh == LoadedPlugin(bridge)
        opened(behaviour) ==
            called(hs, load(plugin_id, "Ok")
                       \o (IF behaviour = "InitFailed" THEN << >>
                           ELSE register_calls(hs.services, plugin_id,
                                               ProvidesOf(plugin_id))))
    IN  {Outcome(called(hs, load(plugin_id, kind)), Err(kind, plugin_id))
            : kind \in LoadFailures}
        \cup
        {LET i == init(fresh, hs.services, plugin_id, behaviour)
         IN  IF i.result # Ok
             THEN Outcome(called([called(opened(behaviour), <<Called("init", plugin_id, 1)>>)
                                    EXCEPT !.services = i.services],
                                 <<Called("drop", plugin_id, 0)>>),
                          i.result)
             ELSE Outcome([called(opened(behaviour),
                                  <<Called("init", plugin_id, 0)>>) EXCEPT
                             !.services = i.services,
                             !.plugins = [@ EXCEPT ![plugin_id].enabled = TRUE],
                             !.loaded = (plugin_id :> i.plugin) @@ @,
                             !.callback_bridge = store_bridge(hs, bridge)],
                          Ok)
         : behaviour \in InitBehaviours}

\* enable without `if self.loaded.contains_key(plugin_id) { return Ok(()) }`
enable_outcomes_reload(hs, plugin_id) ==
    IF plugin_id \notin DOMAIN hs.plugins
    THEN {Outcome(hs, Err("PluginNotFound", plugin_id))}
    ELSE {Outcome(hs, Err("LoadFailed", plugin_id))}
         \cup load_outcomes(hs, plugin_id)

enable_outcomes(hs, plugin_id) ==
    IF plugin_id \in DOMAIN hs.loaded THEN {Outcome(hs, Ok)}
    ELSE IF plugin_id \notin DOMAIN hs.plugins
         THEN {Outcome(hs, Err("PluginNotFound", plugin_id))}
         ELSE {Outcome(hs, Err("LoadFailed", plugin_id))}
              \cup load_outcomes(hs, plugin_id)

\* enable_package: the loop `self.enable(&plugin_id)?` from position i of the
\* package's plugin_ids
RECURSIVE enable_each(_, _, _)
enable_each(hs, ids, i) ==
    IF i > Len(ids) THEN {Outcome(hs, Ok)}
    ELSE UNION {IF o.result = Ok THEN enable_each(o.state, ids, i + 1) ELSE {o}
                : o \in enable_outcomes(hs, ids[i])}

enable_package_outcomes(hs, package_id) ==
    IF package_id \notin DOMAIN hs.packages
    THEN {Outcome(hs, Err("PackageNotFound", package_id))}
    ELSE enable_each(hs, hs.packages[package_id].plugin_ids, 1)

enable_single_outcomes(hs, plugin_id) ==
    IF plugin_id \in DOMAIN hs.loaded THEN {Outcome(hs, Ok)}
    ELSE IF plugin_id \notin DOMAIN hs.plugins
         THEN {Outcome(hs, Err("PluginNotFound", plugin_id))}
         ELSE {Outcome(hs, Err("LoadFailed", plugin_id))}
              \cup (IF verify_required_services(hs, plugin_id) # Ok
                    THEN {Outcome(hs, verify_required_services(hs, plugin_id))}
                    ELSE load_outcomes(hs, plugin_id))

DependencyLoadFailed(plugin, dependency, error) ==
    [tag |-> "DependencyLoadFailed", plugin |-> plugin,
     dependency |-> dependency, error |-> error]

\* the loop walking the load order from its end: dependents first
RECURSIVE enable_in_order_backwards(_, _, _, _)
enable_in_order_backwards(hs, plugin_id, order, i) ==
    IF i > Len(order) THEN {Outcome(hs, Ok)}
    ELSE LET id == order[Len(order) + 1 - i]
         IN  IF id \in DOMAIN hs.loaded
             THEN enable_in_order_backwards(hs, plugin_id, order, i + 1)
             ELSE UNION {IF o.result = Ok
                         THEN enable_in_order_backwards(o.state, plugin_id, order, i + 1)
                         ELSE {Outcome(o.state,
                                  IF id # plugin_id
                                  THEN DependencyLoadFailed(plugin_id, id, o.result)
                                  ELSE o.result)}
                         : o \in enable_single_outcomes(hs, id)}

\* the loop without the map_err that wraps a dependency's error
RECURSIVE enable_in_order_unwrapped(_, _, _, _)
enable_in_order_unwrapped(hs, plugin_id, order, i) ==
    IF i > Len(order) THEN {Outcome(hs, Ok)}
    ELSE IF order[i] \in DOMAIN hs.loaded
         THEN enable_in_order_unwrapped(hs, plugin_id, order, i + 1)
         ELSE UNION {IF o.result = Ok
                     THEN enable_in_order_unwrapped(o.state, plugin_id, order, i + 1)
                     ELSE {Outcome(o.state, o.result)}
                     : o \in enable_single_outcomes(hs, order[i])}

\* the loop of enable_with_dependencies from position i of the load order
RECURSIVE enable_in_order(_, _, _, _)
enable_in_order(hs, plugin_id, order, i) ==
    IF i > Len(order) THEN {Outcome(hs, Ok)}
    ELSE IF order[i] \in DOMAIN hs.loaded
         THEN enable_in_order(hs, plugin_id, order, i + 1)
         ELSE UNION {IF o.result = Ok
                     THEN enable_in_order(o.state, plugin_id, order, i + 1)
                     ELSE {Outcome(o.state,
                              IF order[i] # plugin_id
                              THEN DependencyLoadFailed(plugin_id, order[i], o.result)
                              ELSE o.result)}
                     : o \in enable_single_outcomes(hs, order[i])}

\* enable_with_dependencies without the `?` on resolve_load_order
enable_anyway(hs, plugin_id) ==
    enable_in_order(hs, plugin_id, <<plugin_id>>, 1)

enable_with_dependencies_outcomes(hs, plugin_id) ==
    LET load_order == resolve_load_order(hs.plugins, plugin_id)
    IN  IF load_order.tag # "Ok" THEN {Outcome(hs, load_order)}
        ELSE enable_in_order(hs, plugin_id, load_order.order, 1)

(***************************************************************************)
(* disable, disable_with_dependents, uninstall_package.                    *)
(***************************************************************************)
\* remove the plugin from loaded, call its cleanup and drop it; clear enabled
unload(hs, plugin_id) ==
    LET removed == IF plugin_id \in DOMAIN hs.loaded
                   THEN (IF hs.loaded[plugin_id].initialized
                         THEN <<Called("cleanup", plugin_id, 0)>> ELSE << >>)
                        \o <<Called("drop", plugin_id, 0)>>
                   ELSE << >>
    IN  [called(hs, removed) EXCEPT
            !.loaded = Without(@, {plugin_id}),
            !.plugins = IF plugin_id \in DOMAIN @
                        THEN [@ EXCEPT ![plugin_id].enabled = FALSE] ELSE @]

\* disable without `p.enabled = false`
disable_keep_flag(hs, plugin_id) ==
    [unload(hs, plugin_id) EXCEPT !.plugins = hs.plugins]

disable(hs, plugin_id) == unload(hs, plugin_id)

RECURSIVE unload_each(_, _, _)
unload_each(hs, ids, i) ==
    IF i > Len(ids) THEN hs
    ELSE unload_each(unload(hs, ids[i]), ids, i + 1)

\* disable_with_dependents with the target disabled before its dependents
disable_target_first(hs, iter, plugin_id) ==
    LET dependents == find_dependents(hs.plugins, iter, plugin_id)
        hs1 == [called(hs, <<Called("unregister_provider", plugin_id, 0)>>)
                   EXCEPT !.services = unregister_provider(@, plugin_id)]
        hs2 == unload(hs1, plugin_id)
    IN  unload_each(hs2, Reverse(dependents), 1)

\* disable_with_dependents with the target's services unregistered last
disable_then_unregister(hs, iter, plugin_id) ==
    LET dependents == find_dependents(hs.plugins, iter, plugin_id)
        hs1 == unload_each(hs, Reverse(dependents), 1)
        hs2 == unload(hs1, plugin_id)
    IN  [called(hs2, <<Called("unregister_provider", plugin_id, 0)>>)
            EXCEPT !.services = unregister_provider(@, plugin_id)]

disable_with_dependents(hs, iter, plugin_id) ==
    LET dependents == find_dependents(hs.plugins, iter, plugin_id)
        hs1 == unload_each(hs, Reverse(dependents), 1)
        hs2 == [called(hs1, <<Called("unregister_provider", plugin_id, 0)>>)
                   EXCEPT !.services = unregister_provider(@, plugin_id)]
    IN  unload(hs2, plugin_id)

(***************************************************************************)
(* The plugins directory: the name of each entry of it -> what is there.   *)
(* A subdirectory D has or has not a .version file, and holds manifest     *)
(* files at its plugin roots: D itself (root "") and D/V for a version V.  *)
(***************************************************************************)
NoFile == [tag |-> "NoFile"]

\* a file whose content cannot be read as what it should be
Garbage == [tag |-> "Garbage"]

Text(text) == [tag |-> "Text", text |-> text]

PluginManifest(id, deps, requires) ==
    [id |-> id, depends_on |-> deps, requires |-> requires]

\* the two kinds of Manifest
Single(m) == [tag |-> "Single", plugin |-> m]
Package(id, ms) == [tag |-> "Package", id |-> id, plugins |-> ms]

Files(package_toml, plugin_toml) ==
    [package_toml |-> package_toml, plugin_toml |-> plugin_toml]

NoFiles == Files(NoFile, NoFile)

\* an entry of the plugins directory that is not a directory
PlainFile ==
    [is_dir |-> FALSE, version |-> NoFile, roots |-> << >>, archive |-> NoFile]

\* archive: the package.tar.gz that install_package writes into the directory
DirEntry(version, roots) ==
    [is_dir |-> TRUE, version |-> version, roots |-> roots, archive |-> NoFile]

\* a directory in the flat layout
PluginDir(package_toml, plugin_toml) ==
    DirEntry(NoFile, "" :> Files(package_toml, plugin_toml))

\* a directory in the versioned layout, with the manifests of D/root
VersionedDir(version, root, package_toml, plugin_toml) ==
    DirEntry(version, root :> Files(package_toml, plugin_toml))

\* std::fs::read_to_string(..).unwrap_or_default()
read_to_string(file) == IF file.tag = "Text" THEN file.text ELSE ""

\* str::trim on the contents a .version file has here
trim(text) ==
    CASE text = "1.0.0\n" -> "1.0.0"
      [] text = " \n" -> ""
      [] OTHER -> text

\* Manifest::from_file lives in the lib_plugin_manifest crate
from_file(file) ==
    IF file.tag \in {"Single", "Package"}
    THEN [tag |-> "Ok", manifest |-> file]
    ELSE Err("Manifest", 0)

\* Manifest::id
manifest_id(manifest) ==
    IF manifest.tag = "Single" THEN manifest.plugin.id ELSE manifest.id

\* PackageManifest::expand_plugins
expand_plugins(manifest) == manifest.plugins

\* Manifest::plugin_ids
plugin_ids(manifest) ==
    IF manifest.tag = "Single" THEN <<manifest.plugin.id>>
    ELSE [i \in DOMAIN manifest.plugins |-> manifest.plugins[i].id]

\* the files at a path, if the path is there
files_at(dir, path) ==
    IF /\ path.dir \in DOMAIN dir
       /\ dir[path.dir].is_dir
       /\ path.version \in DOMAIN dir[path.dir].roots
    THEN dir[path.dir].roots[path.version]
    ELSE NoFiles

\* std::fs::remove_dir_all on a package's path
remove_dir_all(dir, path) ==
    IF path.dir \notin DOMAIN dir THEN Err("Io", 0)
    ELSE IF path.version = ""
         THEN [tag |-> "Ok", dir |-> Without(dir, {path.dir})]
         ELSE IF path.version \notin DOMAIN dir[path.dir].roots THEN Err("Io", 0)
              ELSE [tag |-> "Ok",
                    dir |-> [dir EXCEPT ![path.dir].roots = Without(@, {path.version})]]

RECURSIVE disable_each(_, _, _)
disable_each(hs, ids, i) ==
    IF i > Len(ids) THEN hs
    ELSE disable_each(disable(hs, ids[i]), ids, i + 1)

\* uninstall_package without the loop `let _ = self.disable(plugin_id)`
uninstall_package_keep_loaded(hs, id) ==
    IF id \notin DOMAIN hs.packages
    THEN {Outcome(hs, Err("PackageNotFound", id))}
    ELSE LET ids == hs.packages[id].plugin_ids
             removed == remove_dir_all(hs.disk, hs.packages[id].path)
         IN  {Outcome(hs, Err("Io", id))}
             \cup
             (IF removed.tag # "Ok" THEN {}
              ELSE {Outcome([hs EXCEPT
                                !.disk = removed.dir,
                                !.packages = Without(@, {id}),
                                !.plugins = Without(@, Range(ids)),
                                !.install_status = Without(@, {id})], Ok)})

uninstall_package_outcomes(hs, id) ==
    IF id \notin DOMAIN hs.packages
    THEN {Outcome(hs, Err("PackageNotFound", id))}
    ELSE LET ids == hs.packages[id].plugin_ids
             path == hs.packages[id].path
             hs1 == disable_each(hs, ids, 1)
             removed == remove_dir_all(hs.disk, path)
         IN  {Outcome(hs1, Err("Io", id))}
             \cup
             (IF removed.tag # "Ok" THEN {}
              ELSE {Outcome([hs1 EXCEPT
                                !.disk = removed.dir,
                                !.packages = Without(@, {id}),
                                !.plugins = Without(@, Range(ids)),
                                !.install_status = Without(@, {id})], Ok)})

(***************************************************************************)
(* The host's operations as actions.                                       *)
(***************************************************************************)
Apply(o) ==
    /\ plugins' = o.state.plugins
    /\ packages' = o.state.packages
    /\ loaded' = o.state.loaded
    /\ services' = o.state.services
    /\ callback_bridge' = o.state.callback_bridge
    /\ install_status' = o.state.install_status
    /\ registry' = o.state.registry
    /\ disk' = o.state.disk
    /\ calls' = o.state.calls
    /\ ret' = o.result
    /\ UNCHANGED <<concVars, processVars>>

\* the host as a public method of it is entered: the log of the operation
\* starts with the operation itself
Entered(method, id) == called(HostState, <<Called(method, id, 0)>>)

Enable(plugin_id) ==
    \E o \in enable_outcomes(Entered("enable", plugin_id), plugin_id) : Apply(o)

Disable(plugin_id) ==
    Apply(Outcome(disable(Entered("disable", plugin_id), plugin_id), Ok))

EnablePackage(package_id) ==
    \E o \in enable_package_outcomes(Entered("enable_package", package_id), package_id) :
        Apply(o)

EnableWithDependencies(plugin_id) ==
    \E o \in enable_with_dependencies_outcomes(
                 Entered("enable_with_dependencies", plugin_id), plugin_id) : Apply(o)

\* the orders of every map over the plugin ids
HashMapOrders == UNION {IterationOrders(keys) : keys \in SUBSET (1..4)}

values(map) == {iter \in HashMapOrders : Range(iter) = DOMAIN map}

\* one outcome for each order the walk over self.plugins can take
disable_with_dependents_outcomes(hs, plugin_id) ==
    LET found == [iter \in values(hs.plugins) |->
                     find_dependents(hs.plugins, iter, plugin_id)]
        \* an order for each list of dependents the walk can come to
        orders == {CHOOSE iter \in DOMAIN found : found[iter] = dependents
                   : dependents \in Range(found)}
    IN  {Outcome(disable_with_dependents(hs, iter, plugin_id), Ok)
            : iter \in orders}

DisableWithDependents(plugin_id) ==
    \E o \in disable_with_dependents_outcomes(
                 Entered("disable_with_dependents", plugin_id), plugin_id) : Apply(o)

UninstallPackage(id) ==
    \E o \in uninstall_package_outcomes(Entered("uninstall_package", id), id) : Apply(o)

(***************************************************************************)
(* update_all, send_message, scan_installed.                               *)
(***************************************************************************)
\* what a plugin binary exports besides init and cleanup: vtable.update and
\* vtable.handle_message are optional entries
HasUpdate(plugin_id) == plugin_id # 3

HasHandler(plugin_id) == plugin_id # 2

Response(text) == [tag |-> "Ok", response |-> text]

\* update without `if !self.initialized { return Err(NotEnabled) }`
update_unguarded(hs, plugin_id, rc) ==
    IF ~HasUpdate(plugin_id) THEN Outcome(hs, Ok)
    ELSE Outcome(called(hs, <<Called("update", plugin_id, rc)>>),
                 IF rc # 0 THEN Err("InitFailed", plugin_id) ELSE Ok)

\* LoadedPlugin::update with the code the plugin's update entry returns
update(hs, plugin_id, rc) ==
    IF ~hs.loaded[plugin_id].initialized
    THEN Outcome(hs, Err("NotEnabled", plugin_id))
    ELSE IF ~HasUpdate(plugin_id) THEN Outcome(hs, Ok)
    ELSE Outcome(called(hs, <<Called("update", plugin_id, rc)>>),
                 IF rc # 0 THEN Err("InitFailed", plugin_id) ELSE Ok)

\* the loop without the `?`: errors of update are dropped
RECURSIVE update_in_order_ignoring(_, _, _)
update_in_order_ignoring(hs, iter, i) ==
    IF i > Len(iter) THEN {Outcome(hs, Ok)}
    ELSE UNION {update_in_order_ignoring(update(hs, iter[i], rc).state, iter, i + 1)
                : rc \in {0, 1}}

\* the loop `for loaded in self.loaded.values_mut()` from position i of the
\* order the map is walked in; `?` leaves it at the first Err
RECURSIVE update_in_order(_, _, _)
update_in_order(hs, iter, i) ==
    IF i > Len(iter) THEN {Outcome(hs, Ok)}
    ELSE UNION {LET o == update(hs, iter[i], rc)
                IN  IF o.result = Ok
                    THEN update_in_order(o.state, iter, i + 1)
                    ELSE {o}
                : rc \in {0, 1}}

update_all_outcomes(hs) ==
    UNION {update_in_order(hs, iter, 1) : iter \in values(hs.loaded)}

\* what a plugin's handle_message gives back: a response or an error message
PluginResponse == "response"
PluginMessage == "error message"

\* send_message that takes the plugin from the inventory, loaded or not
send_message_unguarded(hs, plugin_id) ==
    IF plugin_id \notin DOMAIN hs.plugins
    THEN {Outcome(hs, Err("NotEnabled", plugin_id))}
    ELSE IF ~HasHandler(plugin_id) THEN {Outcome(hs, Response(""))}
         ELSE {Outcome(called(hs, <<Called("handle_message", plugin_id, 0)>>),
                       Response(PluginResponse)),
               Outcome(called(hs, <<Called("handle_message", plugin_id, 1)>>),
                       Err("InitFailed", PluginMessage))}

\* PluginHost::send_message and LoadedPlugin::send_message
send_message_outcomes(hs, plugin_id) ==
    IF plugin_id \notin DOMAIN hs.loaded
    THEN {Outcome(hs, Err("NotEnabled", plugin_id))}
    ELSE IF ~hs.loaded[plugin_id].initialized
         THEN {Outcome(hs, Err("NotEnabled", plugin_id))}
         ELSE IF ~HasHandler(plugin_id) THEN {Outcome(hs, Response(""))}
         ELSE {Outcome(called(hs, <<Called("handle_message", plugin_id, 0)>>),
                       Response(PluginResponse)),
               Outcome(called(hs, <<Called("handle_message", plugin_id, 1)>>),
                       Err("InitFailed", PluginMessage))}

\* `self.plugins.insert(plugin.id(), plugin)` for each plugin manifest of a
\* package, from position i
RECURSIVE insert_plugins(_, _, _, _, _)
insert_plugins(plugs, ms, i, plugin_path, package_id) ==
    IF i > Len(ms) THEN plugs
    ELSE insert_plugins(
             insert(plugs, ms[i].id,
                    [manifest |-> [depends_on |-> ms[i].depends_on,
                                   requires |-> ms[i].requires],
                     path |-> Path(plugin_path.dir, plugin_path.version, ms[i].id),
                     package_id |-> package_id, enabled |-> FALSE]),
             ms, i + 1, plugin_path, package_id)

\* the loop body that takes every directory for one in the flat layout
scan_entry_flat(hs, name) ==
    LET entry == hs.disk[name]
        plugin_path == Path(name, "", 0)
        files == files_at(hs.disk, plugin_path)
        file == IF files.package_toml # NoFile
                THEN files.package_toml ELSE files.plugin_toml
        parsed == from_file(file)
        manifest == parsed.manifest
        package == InstalledPackage(plugin_ids(manifest), plugin_path)
    IN  IF ~entry.is_dir THEN hs
        ELSE IF file = NoFile THEN hs
        ELSE IF parsed.tag # "Ok" THEN hs
        ELSE [hs EXCEPT
                !.packages = insert(@, manifest_id(manifest), package),
                !.plugins =
                    IF manifest.tag = "Single"
                    THEN insert(@, manifest.plugin.id,
                                [manifest |-> [depends_on |-> manifest.plugin.depends_on,
                                               requires |-> manifest.plugin.requires],
                                 path |-> plugin_path,
                                 package_id |-> manifest.plugin.id,
                                 enabled |-> FALSE])
                    ELSE insert_plugins(@, expand_plugins(manifest), 1,
                                        plugin_path, manifest.id)]

\* the body of the loop of scan_installed for the entry of this name
scan_entry(hs, name) ==
    LET entry == hs.disk[name]
        version == trim(read_to_string(entry.version))
        plugin_path == IF entry.version # NoFile
                       THEN Path(name, version, 0) ELSE Path(name, "", 0)
        files == files_at(hs.disk, plugin_path)
        file == IF files.package_toml # NoFile
                THEN files.package_toml ELSE files.plugin_toml
        parsed == from_file(file)
        manifest == parsed.manifest
        package == InstalledPackage(plugin_ids(manifest), plugin_path)
    IN  IF ~entry.is_dir THEN hs
        ELSE IF entry.version # NoFile /\ version = "" THEN hs
        ELSE IF file = NoFile THEN hs
        ELSE IF parsed.tag # "Ok" THEN hs
        ELSE [hs EXCEPT
                !.packages = insert(@, manifest_id(manifest), package),
                !.plugins =
                    IF manifest.tag = "Single"
                    THEN insert(@, manifest.plugin.id,
                                [manifest |-> [depends_on |-> manifest.plugin.depends_on,
                                               requires |-> manifest.plugin.requires],
                                 path |-> plugin_path,
                                 package_id |-> manifest.plugin.id,
                                 enabled |-> FALSE])
                    ELSE insert_plugins(@, expand_plugins(manifest), 1,
                                        plugin_path, manifest.id)]

\* the loop `for entry in read_dir(plugins_dir)?` from item i of the
\* enumeration; item `failing` is an Err (0: none is)
RECURSIVE scan_from(_, _, _, _)
scan_from(hs, iter, i, failing) ==
    IF i = failing
    THEN Outcome(called(hs, <<Called("read_dir", 0, 1)>>), Err("Io", 0))
    ELSE IF i > Len(iter) THEN Outcome(hs, Ok)
    ELSE scan_from(scan_entry(hs, iter[i]), iter, i + 1, failing)

\* scan_installed with the directory enumerated in this order
scan_installed(hs, iter, failing) ==
    scan_from([hs EXCEPT !.packages = EmptyMap, !.plugins = EmptyMap],
              iter, 1, failing)

\* the orders std::fs::read_dir can give the entries in
read_dir(dir) == {iter \in HashMapOrders : Range(iter) = DOMAIN dir}

scan_installed_outcomes(hs) ==
    {scan_installed(hs, iter, failing) :
        iter \in read_dir(hs.disk), failing \in 0..(Cardinality(DOMAIN hs.disk) + 1)}

UpdateAll ==
    \E o \in update_all_outcomes(Entered("update_all", 0)) : Apply(o)

SendMessage(plugin_id) ==
    \E o \in send_message_outcomes(Entered("send_message", plugin_id), plugin_id) :
        Apply(o)

ScanInstalled ==
    \E o \in scan_installed_outcomes(Entered("scan_installed", 0)) : Apply(o)

(***************************************************************************)
(* install_package.  The registry client, the platform table of the        *)
(* package, the download and the file system each succeed or fail; the     *)
(* calls made are logged with 0 for success.                               *)
(***************************************************************************)
Installing(progress) == [tag |-> "Installing", progress |-> progress]
Installed(version) == [tag |-> "Installed", version |-> version]
Failed(error) == [tag |-> "Failed", error |-> error]

\* std::fs::create_dir_all(&package_dir): the directory is there afterwards
create_dir_all(dir, name) ==
    IF name \in DOMAIN dir
    THEN IF dir[name].is_dir THEN [tag |-> "Ok", dir |-> dir] ELSE Err("Io", 0)
    ELSE [tag |-> "Ok", dir |-> insert(dir, name, DirEntry(NoFile, << >>))]

\* std::fs::write(package_dir.join("package.tar.gz"), &data)
write(dir, name, data) == [dir EXCEPT ![name].archive = Text(data)]

\* the bytes download_package returned
Downloaded == "data"

\* install_package up to the download: `?` on get_package_version, on the
\* platform build and on download_package
fetch_failures(hs, id) ==
    {Outcome(called(hs, <<Called("get_package_version", id, 1)>>),
             Err("Registry", "get_package_version")),
     Outcome(called(hs, <<Called("get_package_version", id, 0)>>),
             Err("PlatformNotSupported", "platform")),
     Outcome(called(hs, <<Called("get_package_version", id, 0),
                          Called("download_package", id, 1)>>),
             Err("Registry", "download_package"))}

fetched(hs, id) ==
    called(hs, <<Called("get_package_version", id, 0),
                 Called("download_package", id, 0)>>)

\* install_package from create_dir_all to its end
extract_outcomes(hs, id, version) ==
    LET created == create_dir_all(hs.disk, id)
        failed(rc) == called(hs, <<Called("create_dir_all", id, rc)>>)
    IN  {Outcome(failed(1), Err("Io", 0))}
        \cup
        (IF created.tag # "Ok" THEN {}
         ELSE LET hs1 == [failed(0) EXCEPT !.disk = created.dir]
                  hs2 == [called(hs1, <<Called("write", id, 0)>>) EXCEPT
                             !.disk = write(@, id, Downloaded),
                             !.install_status = insert(@, id, Installed(version))]
              IN  {Outcome(called(hs1, <<Called("write", id, 1)>>), Err("Io", 0))}
                  \cup scan_installed_outcomes(hs2))

\* install_package that writes the download before verifying it
install_package_verify_late(hs, id, version) ==
    IF ~hs.registry THEN {Outcome(hs, Err("Registry", "No registry configured"))}
    ELSE LET hs1 == [hs EXCEPT !.install_status = insert(@, id, Installing(0))]
             created == create_dir_all(hs.disk, id)
             hs2 == [fetched(hs1, id) EXCEPT
                        !.disk = IF created.tag = "Ok"
                                 THEN write(created.dir, id, Downloaded) ELSE @]
         IN  fetch_failures(hs1, id)
             \cup {Outcome([called(hs2, <<Called("verify_checksum", id, 1)>>) EXCEPT
                               !.install_status = insert(@, id, Failed("Checksum mismatch"))],
                           Err("SignatureInvalid", "Checksum mismatch"))}
             \cup extract_outcomes(called(fetched(hs1, id),
                                          <<Called("verify_checksum", id, 0)>>),
                                   id, version)

install_package_outcomes(hs, id, version) ==
    IF ~hs.registry THEN {Outcome(hs, Err("Registry", "No registry configured"))}
    ELSE LET hs1 == [hs EXCEPT !.install_status = insert(@, id, Installing(0))]
             hs2 == fetched(hs1, id)
         IN  fetch_failures(hs1, id)
             \cup {Outcome([called(hs2, <<Called("verify_checksum", id, 1)>>) EXCEPT
                               !.install_status = insert(@, id, Failed("Checksum mismatch"))],
                           Err("SignatureInvalid", "Checksum mismatch"))}
             \cup extract_outcomes(called(hs2, <<Called("verify_checksum", id, 0)>>),
                                   id, version)

InstallPackage(id, version) ==
    \E o \in install_package_outcomes(Entered("install_package", id), id, version) :
        Apply(o)

\* resolve_load_order on its own, as enable_with_dependencies calls it
ResolveLoadOrder(plugin_id) ==
    /\ ret' = resolve_load_order(plugins, plugin_id)
    /\ calls' = << >>
    /\ UNCHANGED <<services, hostVars, disk, concVars, processVars>>

(***************************************************************************)
(* Inventories: what scan_installed can have found.  A depends_on list     *)
(* names up to MaxDeps distinct ids, in any order, installed or not, the   *)
(* plugin itself included.                                                 *)
(***************************************************************************)
PluginIds == 1..4

\* the ids the exhaustive family of inventories is built over
SmallIds == 1..3

DepLists ==
    UNION {{seq \in [1..k -> SmallIds] :
               \A i, j \in 1..k : i # j => seq[i] # seq[j]} : k \in 0..MaxDeps}

\* every plugin a single-plugin package of its own
SinglePackages(ids) == [id \in ids |-> InstalledPackage(<<id>>, Path(id, "", 0))]

Inventory(plugs, pkgs) == [plugins |-> plugs, packages |-> pkgs]

\* every inventory over SmallIds: each id installed or not, with any list
Inventories ==
    UNION {{Inventory(plugs, SinglePackages(installed)) :
               plugs \in [installed -> {InstalledPlugin(deps, 0) : deps \in DepLists}]}
              : installed \in SUBSET SmallIds}

\* inventories over four ids: a diamond (its two branches listed either
\* way), a dependency that is not installed, a two-plugin package with a
\* chain through it, and a cycle with a plugin hanging off it
Plugin(deps, pkg) == InstalledPlugin(deps, pkg)

Shapes ==
    {Inventory(1 :> Plugin(<<2, 3>>, 1) @@ 2 :> Plugin(<<4>>, 2)
                 @@ 3 :> Plugin(<<4>>, 3) @@ 4 :> Plugin(<< >>, 4),
               SinglePackages(1..4)),
     Inventory(1 :> Plugin(<<3, 2>>, 1) @@ 2 :> Plugin(<<4>>, 2)
                 @@ 3 :> Plugin(<<4>>, 3) @@ 4 :> Plugin(<< >>, 4),
               SinglePackages(1..4)),
     Inventory(1 :> Plugin(<<2>>, 1) @@ 2 :> Plugin(<<4>>, 2)
                 @@ 3 :> Plugin(<< >>, 3),
               SinglePackages(1..3)),
     Inventory(1 :> Plugin(<< >>, 4) @@ 2 :> Plugin(<<1>>, 4)
                 @@ 3 :> Plugin(<<2>>, 3),
               4 :> InstalledPackage(<<1, 2>>, Path(4, "", 0))
                 @@ 3 :> InstalledPackage(<<3>>, Path(3, "", 0))),
     Inventory(1 :> Plugin(<<2>>, 1) @@ 2 :> Plugin(<<1>>, 2)
                 @@ 3 :> Plugin(<<1>>, 3) @@ 4 :> Plugin(<< >>, 4),
               SinglePackages(1..4))}

\* a single-plugin package has the id of its plugin and the plugin's binary
\* is in the package's directory; the binary of a plugin of a multi-plugin
\* package is in plugins/<id> under it
OwnPackage(inv) ==
    [inv EXCEPT !.plugins =
        [id \in DOMAIN @ |->
            IF @[id].package_id \in {0, id}
            THEN [@[id] EXCEPT !.package_id = id, !.path = Path(id, "", 0)]
            ELSE [@[id] EXCEPT !.path = Path(@.dir, "", id)]]]

\* the plugins directory an inventory was scanned from: a directory for
\* each package, named after it, in the flat layout
Directory(inv) ==
    [id \in DOMAIN inv.packages |->
        LET ids == inv.packages[id].plugin_ids
            m(p) == PluginManifest(p, inv.plugins[p].manifest.depends_on,
                                   inv.plugins[p].manifest.requires)
        IN  IF ids = <<id>>
            THEN PluginDir(NoFile, Single(m(id)))
            ELSE PluginDir(Package(id, [i \in DOMAIN ids |-> m(ids[i])]), NoFile)]

HostCreated ==
    /\ loaded = EmptyMap
    /\ install_status = EmptyMap
    /\ registry = FALSE
    /\ services = EmptyRegistry
    /\ callback_bridge = 0
    /\ calls = << >>
    /\ ret = Ok
    /\ ConcIdle
    /\ ProcessIdle

ResolveInit ==
    /\ \E inv \in Inventories \cup Shapes :
          /\ plugins = OwnPackage(inv).plugins
          /\ packages = inv.packages
          /\ disk = Directory(inv)
    /\ HostCreated

ResolveNext ==
    \E plugin_id \in PluginIds :
        \/ ResolveLoadOrder(plugin_id)
        \/ EnableWithDependencies(plugin_id)

SpecResolve == ResolveInit /\ [][ResolveNext]_vars

(***************************************************************************)
(* The depends_on graph of an inventory.                                   *)
(***************************************************************************)
DependsOn(inv, id) ==
    IF id \in DOMAIN inv THEN Range(inv[id].manifest.depends_on) ELSE {}

RECURSIVE Closure(_, _)
Closure(inv, ids) ==
    LET more == ids \cup UNION {DependsOn(inv, id) : id \in ids}
    IN  IF more = ids THEN ids ELSE Closure(inv, more)

\* T and everything T depends on, directly or not
Reachable(inv, T) == Closure(inv, {T})

\* a reachable plugin that depends on itself, directly or not
CycleReachable(inv, T) ==
    \E id \in Reachable(inv, T) : id \in Closure(inv, DependsOn(inv, id))

FullyInstalled(inv, T) == Reachable(inv, T) \subseteq DOMAIN inv

\* C8: for an installed T whose reachable depends_on graph is acyclic and
\* fully installed, resolve_load_order(T) returns Ok with a sequence that
\* holds exactly T and its transitive dependencies, each once, every plugin
\* after all the plugins of its depends_on, and T last.
C8_LoadOrder ==
    [][\A T \in DOMAIN plugins :
          (/\ ResolveLoadOrder(T)
           /\ ~CycleReachable(plugins, T)
           /\ FullyInstalled(plugins, T))
          => /\ ret'.tag = "Ok"
             /\ LET order == ret'.order
                IN  /\ Range(order) = Reachable(plugins, T)
                    /\ Len(order) = Cardinality(Reachable(plugins, T))
                    /\ \A i \in DOMAIN order :
                          \A dep \in DependsOn(plugins, order[i]) :
                             \E j \in 1..(i - 1) : order[j] = dep
                    /\ order[Len(order)] = T]_vars

\* the diamond 1 -> {2, 3} -> 4 resolved for 1
C8_Witness ==
    /\ DOMAIN plugins = 1..4
    /\ plugins[1].manifest.depends_on = <<2, 3>>
    /\ plugins[2].manifest.depends_on = <<4>>
    /\ plugins[3].manifest.depends_on = <<4>>
    /\ ret = LoadOrder(<<4, 2, 3, 1>>)

\* C9: when a depends_on cycle is reachable from an installed T and every
\* id referenced on the way is installed, resolve_load_order(T) fails with
\* CircularDependency, and enable_with_dependencies(T) fails with it, loads
\* no plugin and changes nothing in the host; when T depends on Y alone and
\* Y on T alone, the error names T.
C9_CircularDependency ==
    [][\A T \in DOMAIN plugins :
          (CycleReachable(plugins, T) /\ FullyInstalled(plugins, T))
          => /\ ResolveLoadOrder(T) => ret'.tag = "CircularDependency"
             /\ EnableWithDependencies(T)
                   => /\ ret'.tag = "CircularDependency"
                      /\ UNCHANGED <<services, hostVars>>
             /\ \A Y \in DOMAIN plugins \ {T} :
                   (/\ ResolveLoadOrder(T)
                    /\ plugins[T].manifest.depends_on = <<Y>>
                    /\ plugins[Y].manifest.depends_on = <<T>>)
                   => ret' = Err("CircularDependency", T)]_vars

\* plugin 4 is loaded, 1 and 2 depend on each other, and a call for 1 or
\* for 3 (which depends on 1) has reported the cycle at 1
C9_Witness ==
    /\ DOMAIN plugins = 1..4
    /\ plugins[1].manifest.depends_on = <<2>>
    /\ plugins[2].manifest.depends_on = <<1>>
    /\ DOMAIN loaded = {4}
    /\ ret = Err("CircularDependency", 1)

\* C10: when the depends_on graph reachable from an installed T is acyclic
\* and names an id that is not installed, resolve_load_order(T) fails with
\* DependencyNotFound of an id that is not installed, and
\* enable_with_dependencies(T) loads no plugin.
C10_DependencyNotFound ==
    [][\A T \in DOMAIN plugins :
          (~CycleReachable(plugins, T) /\ ~FullyInstalled(plugins, T))
          => /\ ResolveLoadOrder(T)
                   => /\ ret'.tag = "DependencyNotFound"
                      /\ ret'.what \notin DOMAIN plugins
             /\ EnableWithDependencies(T) => loaded' = loaded]_vars

\* plugin 3 is loaded, 1 depends on 2 and 2 on 4, which is not installed
C10_Witness ==
    /\ DOMAIN plugins = 1..3
    /\ plugins[1].manifest.depends_on = <<2>>
    /\ plugins[2].manifest.depends_on = <<4>>
    /\ DOMAIN loaded = {3}
    /\ ret = Err("DependencyNotFound", 4)

(***************************************************************************)
(* Cascading disable, on the curated inventories: plugins are loaded by    *)
(* enable, which looks at no dependency, so that any set of installed      *)
(* plugins can be the loaded set when disable_with_dependents is called.   *)
(***************************************************************************)
\* find_dependents looks at what a depends_on list contains, not at its
\* order: one diamond is enough
CascadeShapes == {inv \in Shapes : inv.plugins[1].manifest.depends_on # <<3, 2>>}

CascadeInit ==
    /\ \E inv \in CascadeShapes :
          /\ plugins = OwnPackage(inv).plugins
          /\ packages = inv.packages
          /\ disk = Directory(inv)
    /\ HostCreated

CascadeNext ==
    \E plugin_id \in PluginIds :
        \/ Enable(plugin_id)
        \/ DisableWithDependents(plugin_id)

SpecCascade == CascadeInit /\ [][CascadeNext]_vars

\* the installed plugins that list T in depends_on, directly or through others
Dependents(inv, T) ==
    {X \in DOMAIN inv \ {T} : T \in Closure(inv, DependsOn(inv, X))}

\* where in a log a call of this kind for this plugin is
CallsOf(cs, entry, plugin_id) ==
    {i \in DOMAIN cs : cs[i].entry = entry /\ cs[i].plugin = plugin_id}

\* the targets of the disable_with_dependents calls a log is of: only
\* disable_with_dependents calls unregister_provider, once, for its target
CascadeTargets(cs) ==
    {cs[i].plugin : i \in {j \in DOMAIN cs : cs[j].entry = "unregister_provider"}}

\* C11: after disable_with_dependents(T) has returned, T is not loaded and
\* no plugin that transitively lists T in depends_on is loaded, and the
\* call returned Ok.
C11_CascadeUnloads ==
    \A T \in CascadeTargets(calls) :
        /\ ret = Ok
        /\ T \notin DOMAIN loaded
        /\ \A X \in Dependents(plugins, T) : X \notin DOMAIN loaded

\* the diamond with all four plugins loaded, cascaded from its bottom
C11_Witness ==
    /\ DOMAIN plugins = 1..4
    /\ plugins[1].manifest.depends_on = <<2, 3>>
    /\ plugins[2].manifest.depends_on = <<4>>
    /\ plugins[3].manifest.depends_on = <<4>>
    /\ CascadeTargets(calls) = {4}
    /\ \A X \in 1..4 : CallsOf(calls, "cleanup", X) # {}
    /\ loaded = EmptyMap

\* C12: during disable_with_dependents(T), the cleanup entry of every loaded
\* plugin that transitively depends on T is called, and has returned, before
\* the cleanup entry of T is called.
C12_DependentsCleanedFirst ==
    [][\A T \in CascadeTargets(calls') :
          \A X \in Dependents(plugins, T) \cap DOMAIN loaded :
             /\ CallsOf(calls', "cleanup", X) # {}
             /\ \A j \in CallsOf(calls', "cleanup", X) :
                   \A k \in CallsOf(calls', "cleanup", T) : j < k]_vars

\* a loaded dependent and its loaded target have both been cleaned up by a
\* disable_with_dependents call
C12_Witness ==
    \E T \in CascadeTargets(calls) :
        /\ CallsOf(calls, "cleanup", T) # {}
        /\ \E X \in Dependents(plugins, T) : CallsOf(calls, "cleanup", X) # {}

\* the services of this provider in a registry
ServicesOf(svcs, provider_id) ==
    {s \in DOMAIN svcs : ProviderOf(svcs, s) = provider_id}

\* C13: during disable_with_dependents(T), every dependent's cleanup runs
\* with the services of provider T still in the registry, and they are all
\* out of the registry when the cleanup entry of T is called and when the
\* library of T is dropped; T's cleanup comes before the drop of its library.
C13_UnregisterBeforeTargetCleanup ==
    [][\A T \in CascadeTargets(calls') :
          /\ \A i \in DOMAIN calls' :
                /\ (calls'[i].entry = "cleanup" /\ calls'[i].plugin # T)
                      => \A s \in ServicesOf(services, T) :
                            /\ s \in DOMAIN calls'[i].registry
                            /\ calls'[i].registry[s] = services[s]
                /\ (calls'[i].entry \in {"cleanup", "drop"} /\ calls'[i].plugin = T)
                      => ServicesOf(calls'[i].registry, T) = {}
          /\ \A j \in CallsOf(calls', "cleanup", T) :
                \A k \in CallsOf(calls', "drop", T) : j < k
          /\ ServicesOf(services', T) = {}]_vars

\* a dependent was cleaned up while a service of the target was registered,
\* and the target was cleaned up after it
C13_Witness ==
    \E T \in CascadeTargets(calls) :
        /\ CallsOf(calls, "cleanup", T) # {}
        /\ \E i \in DOMAIN calls :
              /\ calls[i].entry = "cleanup"
              /\ calls[i].plugin # T
              /\ ServicesOf(calls[i].registry, T) # {}
        /\ ServicesOf(services, T) = {}

(***************************************************************************)
(* Enabling with dependencies, on the curated inventories, from any loaded *)
(* set that enable and disable can leave.                                  *)
(***************************************************************************)
EnableInit ==
    /\ \E inv \in Shapes :
          /\ plugins = OwnPackage(inv).plugins
          /\ packages = inv.packages
          /\ disk = Directory(inv)
    /\ HostCreated

EnableNext ==
    \E plugin_id \in PluginIds :
        \/ Enable(plugin_id)
        \/ Disable(plugin_id)
        \/ EnableWithDependencies(plugin_id)

SpecEnable == EnableInit /\ [][EnableNext]_vars

\* the log is of a call of this method of the host for this id
IsCallOf(cs, method, id) ==
    cs # << >> /\ cs[1].entry = method /\ cs[1].plugin = id

\* the calls of a log that load or start this plugin
StartsOf(cs, plugin_id) ==
    {i \in DOMAIN cs : cs[i].plugin = plugin_id /\ cs[i].entry \in {"open", "entry", "init"}}

\* C14: when enable_with_dependencies(T) returns Ok, T and every transitive
\* dependency of T are loaded; for X and a dependency D of X both loaded by
\* this call, the init of D had returned 0 before the library of X was
\* opened and its entry and init were called; and no plugin that was loaded
\* before the call is opened or initialised by it.
C14_DependenciesInitialisedFirst ==
    [][\A T \in PluginIds :
          (IsCallOf(calls', "enable_with_dependencies", T) /\ ret' = Ok)
          => /\ Reachable(plugins, T) \subseteq DOMAIN loaded'
             /\ \A X \in DOMAIN plugins :
                   \A D \in DependsOn(plugins, X) :
                      (StartsOf(calls', X) # {} /\ StartsOf(calls', D) # {})
                      => \E j \in CallsOf(calls', "init", D) :
                            /\ calls'[j].rc = 0
                            /\ \A k \in StartsOf(calls', X) : j < k
             /\ \A P \in DOMAIN loaded : StartsOf(calls', P) = {}
             /\ \A P \in DOMAIN loaded' :
                   Cardinality(CallsOf(calls', "init", P)) <= 1]_vars

\* one call has loaded the whole diamond while its bottom was loaded already
C14_Witness ==
    /\ DOMAIN plugins = 1..4
    /\ plugins[1].manifest.depends_on = <<2, 3>>
    /\ DOMAIN loaded = 1..4
    /\ ret = Ok
    /\ \A X \in 1..3 : CallsOf(calls, "init", X) # {}
    /\ StartsOf(calls, 4) = {}

\* the first id of a load order that is not loaded
FirstNotLoaded(order, ld) ==
    order[CHOOSE i \in DOMAIN order :
             /\ order[i] \notin DOMAIN ld
             /\ \A j \in 1..(i - 1) : order[j] \in DOMAIN ld]

\* C15: when enable_with_dependencies(T) fails while enabling an id of the
\* load order, the error is DependencyLoadFailed with plugin T and that id
\* as dependency if the id is not T, and the error of enabling T itself,
\* unwrapped, if it is T; the plugins loaded before and those loaded earlier
\* in the call stay loaded, and nothing later in the load order is loaded or
\* called.
C15_DependencyLoadFailed ==
    [][\A T \in PluginIds :
          (/\ IsCallOf(calls', "enable_with_dependencies", T)
           /\ ret'.tag \notin {"Ok", "CircularDependency", "DependencyNotFound"})
          => LET order == resolve_load_order(plugins, T).order
                 failed == FirstNotLoaded(order, loaded')
                 at == CHOOSE i \in DOMAIN order : order[i] = failed
             IN  /\ failed # T
                    => /\ ret'.tag = "DependencyLoadFailed"
                       /\ ret'.plugin = T
                       /\ ret'.dependency = failed
                 /\ failed = T
                    => /\ ret'.tag # "DependencyLoadFailed"
                       /\ ret'.what = T
                 /\ DOMAIN loaded \subseteq DOMAIN loaded'
                 /\ \A j \in 1..(at - 1) : order[j] \in DOMAIN loaded'
                 /\ \A j \in (at + 1)..Len(order) :
                       /\ order[j] \in DOMAIN loaded' => order[j] \in DOMAIN loaded
                       /\ StartsOf(calls', order[j]) = {}]_vars

\* in the diamond, the bottom was loaded by the call and a branch failed
C15_Witness ==
    /\ DOMAIN plugins = 1..4
    /\ plugins[1].manifest.depends_on = <<2, 3>>
    /\ ret.tag = "DependencyLoadFailed"
    /\ ret.plugin = 1
    /\ ret.dependency = 2
    /\ DOMAIN loaded = {4}
    /\ CallsOf(calls, "init", 4) # {}

\* the inventories the whole host is run on: those of at most three plugins
\* in at most two packages (a scan that fails partway can leave any part of
\* the directory in the inventory)
HostShapes ==
    {inv \in Shapes : /\ Cardinality(DOMAIN inv.plugins) <= 3
                      /\ Cardinality(DOMAIN inv.packages) <= 2}

Init ==
    /\ \E inv \in HostShapes :
          /\ plugins = OwnPackage(inv).plugins
          /\ packages = inv.packages
          /\ disk = Directory(inv)
    /\ HostCreated

Next ==
    \/ \E id \in PluginIds :
          \/ Enable(id)
          \/ Disable(id)
          \/ EnableWithDependencies(id)
          \/ DisableWithDependents(id)
          \/ UninstallPackage(id)
          \/ SendMessage(id)
    \/ UpdateAll
    \/ ScanInstalled

Spec == Init /\ [][Next]_vars

\* C16: every LoadedPlugin in the loaded map has initialized = true, after
\* any sequence of enable, enable_with_dependencies, disable,
\* disable_with_dependents, send_message, update_all, scan_installed and
\* uninstall_package.
C16_LoadedInitialized ==
    \A plugin_id \in DOMAIN loaded : loaded[plugin_id].initialized

\* update_all has gone through two loaded plugins or more
C16_Witness ==
    /\ IsCallOf(calls, "update_all", 0)
    /\ ret = Ok
    /\ Cardinality(DOMAIN loaded) >= 2
    /\ \E i \in DOMAIN calls : calls[i].entry = "update"

\* the error of enabling one plugin, out of its DependencyLoadFailed wrapping
FaultOf(result) ==
    IF result.tag = "DependencyLoadFailed" THEN result.error.tag ELSE result.tag

\* C17: a plugin whose enable fails at a load step or whose init returns
\* non-zero is not made live: it is not in the loaded map, its enabled flag
\* is as it was, its cleanup entry is not called, and its init is not called
\* after a load-step fault; a failed enable(p) leaves the loaded map and
\* every enabled flag unchanged.
C17_FailedEnableNotLive ==
    [][\A plugin_id \in DOMAIN plugins :
          /\ (/\ StartsOf(calls', plugin_id) # {}
              /\ \A i \in CallsOf(calls', "init", plugin_id) : calls'[i].rc # 0)
             => /\ plugin_id \notin DOMAIN loaded'
                /\ plugins'[plugin_id].enabled = plugins[plugin_id].enabled
                /\ CallsOf(calls', "cleanup", plugin_id) = {}
                /\ FaultOf(ret') \in LoadFailures
                      => CallsOf(calls', "init", plugin_id) = {}
          /\ (IsCallOf(calls', "enable", plugin_id) /\ ret' # Ok)
             => /\ loaded' = loaded
                /\ plugins' = plugins
                /\ CallsOf(calls', "cleanup", plugin_id) = {}]_vars

\* enable(2) has failed in init while plugin 1 was loaded
C17_Witness ==
    /\ IsCallOf(calls, "enable", 2)
    /\ ret = Err("InitFailed", 2)
    /\ DOMAIN loaded = {1}
    /\ CallsOf(calls, "init", 2) # {}

\* C18: after update_all has returned InitFailed because a plugin's update
\* entry returned non-zero, that plugin is not in the loaded map.
C18_FailedUpdateDropped ==
    (IsCallOf(calls, "update_all", 0) /\ ret.tag = "InitFailed")
    => ret.what \notin DOMAIN loaded

\* C19: update_all calls update on loaded plugins one at a time, each at
\* most once; the first update that returns non-zero is the last call it
\* makes and its InitFailed is what update_all returns; update_all returns
\* Ok only if the update entry of every loaded plugin that has one was
\* called and returned 0.
C19_UpdateAllShortCircuits ==
    IsCallOf(calls, "update_all", 0)
    => /\ \A i \in 2..Len(calls) : calls[i].entry = "update"
       /\ \A plugin_id \in PluginIds :
             Cardinality(CallsOf(calls, "update", plugin_id)) <= 1
       /\ \A i \in 2..Len(calls) :
             calls[i].rc # 0
             => /\ i = Len(calls)
                /\ ret = Err("InitFailed", calls[i].plugin)
       /\ ret = Ok
          => \A plugin_id \in DOMAIN loaded :
                HasUpdate(plugin_id)
                => \E i \in CallsOf(calls, "update", plugin_id) : calls[i].rc = 0
       /\ ret # Ok => calls[Len(calls)].rc # 0

\* with three plugins loaded, the second update called has failed
C19_Witness ==
    /\ IsCallOf(calls, "update_all", 0)
    /\ Cardinality(DOMAIN loaded) = 3
    /\ Len(calls) = 3
    /\ calls[2].rc = 0
    /\ ret.tag = "InitFailed"

\* C20: enable(p) of a loaded plugin returns Ok, makes no call into the
\* plugin and leaves the host and the registry unchanged; enable(p) of an
\* installed plugin whose binary path does not exist (nothing is opened)
\* returns LoadFailed with the host and the registry unchanged.
C20_EnableNoOp ==
    [][\A plugin_id \in PluginIds :
          IsCallOf(calls', "enable", plugin_id)
          => /\ plugin_id \in DOMAIN loaded
                => /\ ret' = Ok
                   /\ Len(calls') = 1
                   /\ UNCHANGED <<services, hostVars>>
             /\ (/\ plugin_id \in DOMAIN plugins \ DOMAIN loaded
                 /\ Len(calls') = 1)
                => /\ ret' = Err("LoadFailed", plugin_id)
                   /\ UNCHANGED <<services, hostVars>>]_vars

\* enable(1) was called with plugins 1 and 2 loaded
C20_Witness ==
    /\ IsCallOf(calls, "enable", 1)
    /\ Len(calls) = 1
    /\ ret = Ok
    /\ DOMAIN loaded = {1, 2}

\* C1: every service entry of the registry has a provider that is in the
\* loaded map: a step of enable, enable_with_dependencies, disable,
\* disable_with_dependents or uninstall_package that takes a provider out of
\* the loaded map leaves no service entry of that provider in the registry.
C1_DisabledProviderUnregistered ==
    [][\A plugin_id \in DOMAIN loaded \ DOMAIN loaded' :
          \A s \in DOMAIN services' :
             ProviderOf(services', s) # plugin_id]_vars

\* C2: the host function table in the context of every loaded plugin is
\* owned by a live CallbackBridge.
C2_HostTableLive ==
    \A plugin_id \in DOMAIN loaded :
        loaded[plugin_id].context.host \in LiveBridges

\* C21: disable(p) returns Ok for every id, installed or not, loaded or not;
\* afterwards p is not in the loaded map and its enabled flag is false; the
\* plugin's cleanup entry is called iff p was in the loaded map; the loaded
\* status and the enabled flag of every other plugin are as they were.
C21_DisableNeverFails ==
    [][\A p \in PluginIds :
          IsCallOf(calls', "disable", p)
          => /\ ret' = Ok
             /\ p \notin DOMAIN loaded'
             /\ DOMAIN plugins' = DOMAIN plugins
             /\ p \in DOMAIN plugins' => ~plugins'[p].enabled
             /\ CallsOf(calls', "cleanup", p) # {} <=> p \in DOMAIN loaded
             /\ \A q \in PluginIds \ {p} :
                   /\ CallsOf(calls', "cleanup", q) = {}
                   /\ q \in DOMAIN loaded' <=> q \in DOMAIN loaded
                   /\ q \in DOMAIN loaded => loaded'[q] = loaded[q]
                   /\ q \in DOMAIN plugins
                      => plugins'[q].enabled = plugins[q].enabled]_vars

\* disable(2) has unloaded plugin 2 and left plugins 1 and 3 loaded
C21_Witness ==
    /\ IsCallOf(calls, "disable", 2)
    /\ CallsOf(calls, "cleanup", 2) # {}
    /\ DOMAIN loaded = {1, 3}
    /\ plugins[1].enabled /\ ~plugins[2].enabled

\* C22: for a plugin that registers its services in init, enable(p) after
\* enable(p); disable(p) leaves the registry, on the services p registers,
\* as a single enable(p) does: the ids of p are present under provider p and
\* every registration of the second init has succeeded.  Here: an enable(p)
\* that loads p right after a disable(p) that unloaded it, the services of p
\* being held by no other plugin.
C22_ReenableRegisters ==
    [][\A p \in PluginIds :
          (/\ IsCallOf(calls, "disable", p)
           /\ CallsOf(calls, "cleanup", p) # {}
           /\ \A s \in ProvidesOf(p) \cap DOMAIN services : ProviderOf(services, s) = p
           /\ IsCallOf(calls', "enable", p)
           /\ ret' = Ok)
          => /\ \A s \in ProvidesOf(p) :
                   s \in DOMAIN services' /\ ProviderOf(services', s) = p
             /\ \A i \in CallsOf(calls', "register_service", p) :
                   calls'[i].rc = 0]_vars

(***************************************************************************)
(* Required services.  Plugin 1 publishes svc.a and plugin 2 publishes     *)
(* svc.b, both at version 1.0.0; the manifest of plugin 2 lists up to      *)
(* MaxRequires entries of `requires` and may depend on plugin 1, which may *)
(* itself require svc.b.                                                   *)
(***************************************************************************)
MaxRequires == 2

VersionStrings == {"1.0.0", "2.0.0", "1.x"}

Requirements ==
    {Requirement(id, min_version, optional) :
        id \in ServiceIds,
        min_version \in {None} \cup {VersionString(text) : text \in VersionStrings},
        optional \in BOOLEAN}

\* lists of entries, no service listed twice
RequiresLists ==
    UNION {{seq \in [1..k -> Requirements] :
               \A i, j \in 1..k : i # j => seq[i].id # seq[j].id}
              : k \in 0..MaxRequires}

Requiring(plugin, requires) == [plugin EXCEPT !.manifest.requires = requires]

RequiresInit ==
    /\ \E requires \in RequiresLists, deps \in {<< >>, <<1>>},
          first \in {<< >>, <<Requirement("svc.b", None, FALSE)>>} :
          LET inv == Inventory(1 :> Requiring(Plugin(<< >>, 1), first)
                                 @@ 2 :> Requiring(Plugin(deps, 2), requires),
                               SinglePackages(1..2))
          IN  /\ plugins = inv.plugins
              /\ packages = inv.packages
              /\ disk = Directory(inv)
    /\ HostCreated

RequiresNext ==
    \E plugin_id \in 1..2 :
        \/ EnableWithDependencies(plugin_id)
        \/ Disable(plugin_id)
        \/ DisableWithDependents(plugin_id)

SpecRequires == RequiresInit /\ [][RequiresNext]_vars

\* the registry satisfies the entry: the service is present and, when
\* min_version is given, it is a version and the registered one is compatible
Satisfied(svcs, req) ==
    /\ req.id \in DOMAIN svcs
    /\ req.min_version # None
       => /\ parse(req.min_version.text) # None
          /\ Satisfies(svcs[req.id].descriptor.version,
                       parse(req.min_version.text).version)

\* the non-optional entries the registry does not satisfy
Unsatisfied(svcs, requires) ==
    {i \in DOMAIN requires : ~requires[i].optional /\ ~Satisfied(svcs, requires[i])}

C24_SendMessage ==
    [][\A p \in PluginIds :
          IsCallOf(calls', "send_message", p)
          => /\ ret' = Err("NotEnabled", p) <=> p \notin DOMAIN loaded
             /\ p \notin DOMAIN loaded => Len(calls') = 1
             /\ (p \in DOMAIN loaded /\ ~HasHandler(p))
                => ret' = Response("") /\ Len(calls') = 1
             /\ (p \in DOMAIN loaded /\ HasHandler(p))
                => /\ Len(calls') = 2
                   /\ calls'[2].entry = "handle_message" /\ calls'[2].plugin = p
                   /\ calls'[2].rc = 0 => ret' = Response(PluginResponse)
                   /\ calls'[2].rc # 0 => ret' = Err("InitFailed", PluginMessage)
             /\ UNCHANGED <<services, hostVars>>]_vars

\* send_message(3, ..) was refused with plugins 1 and 2 loaded
C24_Witness ==
    /\ IsCallOf(calls, "send_message", 3)
    /\ ret = Err("NotEnabled", 3)
    /\ 3 \in DOMAIN plugins
    /\ DOMAIN loaded = {1, 2}

(***************************************************************************)
(* Scanning.  The plugins directory holds up to MaxDirs entries, named     *)
(* 1..MaxDirs, each one of DirEntries: not a directory, a directory        *)
(* without a manifest or with one that does not parse, with a .version     *)
(* file that is blank, unreadable or names a version directory that is or  *)
(* is not there, or a well-formed plugin directory whose manifest declares *)
(* a single plugin or a package of one or two plugins.  Two entries can    *)
(* declare the same package id or the same plugin id.                      *)
(***************************************************************************)
MaxDirs == 2

Manifests ==
    LET m(p) == PluginManifest(p, IF p = 2 THEN <<1>> ELSE << >>, << >>)
    IN  {Single(m(1)), Single(m(2)), Package(1, <<m(2)>>), Package(3, <<m(1), m(2)>>)}

\* a manifest is in plugin.toml if it is of a single plugin, in package.toml
\* if it is of a package
ManifestFiles(manifest) ==
    IF manifest.tag = "Single" THEN Files(NoFile, manifest) ELSE Files(manifest, NoFile)

DirEntries ==
    LET single == Single(PluginManifest(1, << >>, << >>))
    IN  {PlainFile,
         PluginDir(NoFile, NoFile),
         PluginDir(Garbage, single),
         DirEntry(Text(" \n"), "" :> ManifestFiles(single)),
         DirEntry(Garbage, "" :> ManifestFiles(single)),
         DirEntry(Text("1.0.0\n"), "" :> ManifestFiles(single)),
         DirEntry(Text("1.0.0\n"), "1.0.0" :> ManifestFiles(single))}
        \cup {DirEntry(NoFile, "" :> ManifestFiles(manifest)) : manifest \in Manifests}

Directories == UNION {[names -> DirEntries] : names \in SUBSET (1..MaxDirs)}

ScanInit ==
    /\ plugins = EmptyMap
    /\ packages = EmptyMap
    /\ disk \in Directories
    /\ HostCreated

ScanNext ==
    \/ ScanInstalled
    \/ \E id \in PluginIds : UninstallPackage(id)

SpecScan == ScanInit /\ [][ScanNext]_vars

\* C27: a scan_installed that fails partway (the directory enumeration or
\* the read of an entry fails) leaves the packages and plugins maps as they
\* were before the call, never emptied or partly filled.
C27_ScanAtomic ==
    [][(IsCallOf(calls', "scan_installed", 0) /\ ret' # Ok)
       => /\ packages' = packages
          /\ plugins' = plugins]_vars

\* C28: after any sequence of scan_installed and uninstall_package, every
\* plugin of the plugins map has its package_id in packages, and that
\* package lists the plugin in plugin_ids; also when two directories
\* declare the same package id or the same plugin id.
C28_PluginsHavePackages ==
    \A p \in DOMAIN plugins :
        /\ plugins[p].package_id \in DOMAIN packages
        /\ p \in Range(packages[plugins[p].package_id].plugin_ids)

\* the manifest file scan_installed is to read in a subdirectory: that of
\* the directory itself or, with a .version file, of the version directory
ManifestOf(entry) ==
    LET root == IF entry.version = NoFile THEN ""
                ELSE trim(read_to_string(entry.version))
        files == IF root \in DOMAIN entry.roots THEN entry.roots[root] ELSE NoFiles
    IN  IF files.package_toml # NoFile THEN files.package_toml ELSE files.plugin_toml

\* a well-formed plugin directory: a directory whose .version file, if it
\* has one, is not blank, and whose manifest is there and parses
WellFormed(entry) ==
    /\ entry.is_dir
    /\ entry.version # NoFile => trim(read_to_string(entry.version)) # ""
    /\ ManifestOf(entry).tag \in {"Single", "Package"}

\* C29: scan_installed skips every subdirectory whose manifest does not
\* parse, that has no package.toml or plugin.toml, or whose .version file is
\* blank after trimming: none of them makes the scan return an error (an
\* error is a failed read of the directory) or puts anything in the
\* inventory, and every well-formed directory is in the inventory after a
\* scan that returned Ok: its package id and its plugin ids are there, and
\* every entry of the inventory comes from a well-formed directory.
C29_ScanSkips ==
    [][IsCallOf(calls', "scan_installed", 0)
       => LET good == {n \in DOMAIN disk : WellFormed(disk[n])}
              manifest(n) == ManifestOf(disk[n])
          IN  /\ ret' = Ok <=> CallsOf(calls', "read_dir", 0) = {}
              /\ ret' = Ok
                 => /\ DOMAIN packages' = {manifest_id(manifest(n)) : n \in good}
                    /\ DOMAIN plugins' = UNION {Range(plugin_ids(manifest(n))) : n \in good}
                    /\ \A id \in DOMAIN packages' :
                          \E n \in good :
                             /\ manifest_id(manifest(n)) = id
                             /\ packages'[id].path.dir = n
                             /\ packages'[id].plugin_ids = plugin_ids(manifest(n))
                    /\ \A p \in DOMAIN plugins' :
                          \E n \in good :
                             /\ p \in Range(plugin_ids(manifest(n)))
                             /\ plugins'[p].path.dir = n
                             /\ plugins'[p].package_id = manifest_id(manifest(n))
                             /\ ~plugins'[p].enabled]_vars

\* a scan has returned Ok over a directory whose package.toml does not
\* parse and a well-formed one
C29_Witness ==
    /\ IsCallOf(calls, "scan_installed", 0)
    /\ ret = Ok
    /\ \E n, k \in DOMAIN disk :
          /\ ManifestOf(disk[n]) = Garbage
          /\ WellFormed(disk[k])
    /\ Cardinality(DOMAIN packages) = 1

\* C30: scan_installed called twice over an unchanged plugins directory
\* gives equal packages and plugins maps (ids, manifests, paths,
\* package_ids), whatever the directory holds and in whatever order it is
\* enumerated.
C30_ScanTwice ==
    [][(/\ IsCallOf(calls, "scan_installed", 0) /\ ret = Ok
        /\ IsCallOf(calls', "scan_installed", 0) /\ ret' = Ok)
       => /\ packages' = packages
          /\ plugins' = plugins]_vars

(***************************************************************************)
(* Installing.  A host with or without a registry client, over a plugins   *)
(* directory with a well-formed plugin directory, an empty directory or *)
(* a plain file under the names packages are installed to.                 *)
(***************************************************************************)
PackageVersions == {"1.0.0", "2.0.0"}

\* the packages the registry is asked for; plugins_dir/<id> is where
\* package id is installed to
PackageIds == {1, 2}

InstallDirectories ==
    UNION {[names -> {PlainFile, PluginDir(NoFile, NoFile),
                      PluginDir(NoFile, Single(PluginManifest(1, << >>, << >>)))}]
              : names \in SUBSET PackageIds}

InstallInit ==
    /\ plugins = EmptyMap
    /\ packages = EmptyMap
    /\ disk \in InstallDirectories
    /\ loaded = EmptyMap
    /\ services = EmptyRegistry
    /\ callback_bridge = 0
    /\ install_status = EmptyMap
    /\ registry \in BOOLEAN
    /\ calls = << >>
    /\ ret = Ok
    /\ ConcIdle
    /\ ProcessIdle

InstallNext ==
    \/ \E id \in PackageIds, version \in PackageVersions : InstallPackage(id, version)
    \/ \E id \in PackageIds : UninstallPackage(id)
    \/ ScanInstalled

SpecInstall == InstallInit /\ [][InstallNext]_vars

\* C25: when an install_package(id, v) call that set install_status(id) to
\* Installing returns, the status is not Installing any more: it is
\* Installed{v} if the call returned Ok, and Failed{error} if it returned an
\* error (package lookup, platform, download, checksum or IO).
C25_InstallStatusSettled ==
    [][\A id \in PackageIds, version \in PackageVersions :
          (registry /\ InstallPackage(id, version))
          => /\ id \in DOMAIN install_status'
             /\ install_status'[id].tag # "Installing"
             /\ ret' = Ok => install_status'[id] = Installed(version)
             /\ ret' # Ok => install_status'[id].tag = "Failed"]_vars

\* C26: when the downloaded data fails the checksum verification,
\* install_package returns SignatureInvalid, install_status(id) is Failed,
\* nothing is written into the plugins directory, and packages, plugins and
\* loaded are as they were.
C26_ChecksumMismatch ==
    [][\A id \in PackageIds :
          (/\ IsCallOf(calls', "install_package", id)
           /\ \E i \in CallsOf(calls', "verify_checksum", id) : calls'[i].rc # 0)
          => /\ ret' = Err("SignatureInvalid", "Checksum mismatch")
             /\ install_status'[id] = Failed("Checksum mismatch")
             /\ \A other \in DOMAIN install_status \ {id} :
                   other \in DOMAIN install_status'
                   /\ install_status'[other] = install_status[other]
             /\ disk' = disk
             /\ UNCHANGED <<packages, plugins, loaded>>
             /\ CallsOf(calls', "create_dir_all", id) = {}
             /\ CallsOf(calls', "write", id) = {}]_vars

\* the download for package 2 has failed verification on a host that has
\* package 1 in its inventory, installed from the registry
C26_Witness ==
    /\ IsCallOf(calls, "install_package", 2)
    /\ ret = Err("SignatureInvalid", "Checksum mismatch")
    /\ install_status = (1 :> Installed("1.0.0")) @@ (2 :> Failed("Checksum mismatch"))
    /\ DOMAIN packages = {1}
    /\ 2 \notin DOMAIN disk

(***************************************************************************)
(* Uninstalling.  A host with a registry client over a plugins directory   *)
(* that holds, under the names 1 and 3, a single-plugin directory or the   *)
(* directory of a package of the plugins 1 and 2; packages are installed,  *)
(* plugins enabled and packages uninstalled in any order.                  *)
(***************************************************************************)
UninstallDirectories ==
    LET m(p) == PluginManifest(p, IF p = 2 THEN <<1>> ELSE << >>, << >>)
    IN  {3 :> PluginDir(Package(3, <<m(1), m(2)>>), NoFile),
         1 :> PluginDir(NoFile, Single(m(1)))
           @@ 3 :> PluginDir(Package(3, <<m(1), m(2)>>), NoFile)}

UninstallInit ==
    /\ plugins = EmptyMap
    /\ packages = EmptyMap
    /\ disk \in UninstallDirectories
    /\ loaded = EmptyMap
    /\ services = EmptyRegistry
    /\ callback_bridge = 0
    /\ install_status = EmptyMap
    /\ registry = TRUE
    /\ calls = << >>
    /\ ret = Ok
    /\ ConcIdle
    /\ ProcessIdle

UninstallNext ==
    \/ ScanInstalled
    \/ InstallPackage(1, "1.0.0")
    \/ \E id \in 1..2 : Enable(id)
    \/ \E id \in 1..3 : UninstallPackage(id)

SpecUninstall == UninstallInit /\ [][UninstallNext]_vars

\* C31: uninstall_package(id) of a package of the inventory disables every
\* plugin the package lists (the cleanup of each loaded one is called and
\* none is in the loaded map afterwards) and, when the directory tree was
\* removed, returns Ok with the package out of packages, its plugin ids out
\* of plugins and its entry out of install_status, every other entry as it
\* was; when removing the directory tree fails it returns the error and the
\* entries of packages, plugins and install_status stay; for an id that is
\* not in packages it returns PackageNotFound and changes nothing.
C31_UninstallPackage ==
    [][\A id \in PluginIds :
          IsCallOf(calls', "uninstall_package", id)
          => IF id \notin DOMAIN packages
             THEN /\ ret' = Err("PackageNotFound", id)
                  /\ Len(calls') = 1
                  /\ UNCHANGED <<services, hostVars, disk>>
             ELSE LET ids == Range(packages[id].plugin_ids)
                  IN  /\ \A p \in ids :
                            /\ p \notin DOMAIN loaded'
                            /\ p \in DOMAIN loaded => CallsOf(calls', "cleanup", p) # {}
                      /\ \A p \in DOMAIN loaded \ ids :
                            /\ p \in DOMAIN loaded' /\ loaded'[p] = loaded[p]
                            /\ CallsOf(calls', "cleanup", p) = {}
                      /\ ret' = Ok
                         => /\ packages' = Without(packages, {id})
                            /\ DOMAIN plugins' = DOMAIN plugins \ ids
                            /\ \A p \in DOMAIN plugins' :
                                  plugins'[p] = plugins[p]
                            /\ install_status' = Without(install_status, {id})
                            /\ packages[id].path.dir \notin DOMAIN disk'
                      /\ ret' # Ok
                         => /\ ret'.tag = "Io"
                            /\ packages' = packages
                            /\ DOMAIN plugins' = DOMAIN plugins
                            /\ \A p \in DOMAIN plugins' :
                                  /\ plugins'[p].manifest = plugins[p].manifest
                                  /\ plugins'[p].package_id = plugins[p].package_id
                                  /\ plugins'[p].path = plugins[p].path
                            /\ install_status' = install_status
                            /\ disk' = disk]_vars

\* uninstall_package(3) has unloaded the plugins 1 and 2 of package 3 and
\* returned Ok, package 1 and its install status staying
C31_Witness ==
    /\ IsCallOf(calls, "uninstall_package", 3)
    /\ ret = Ok
    /\ CallsOf(calls, "cleanup", 1) # {}
    /\ CallsOf(calls, "cleanup", 2) # {}
    /\ loaded = EmptyMap
    /\ DOMAIN packages = {1}
    /\ DOMAIN install_status = {1}

(***************************************************************************)
(* Callback dispatch.  The functions of the HostVTable carry no host       *)
(* pointer: each reads the thread-local of the thread it is called on.     *)
(* The thread-locals are set where a CallbackBridge is made: in            *)
(* PluginHost::with_callbacks and in enable, on the thread of the host.    *)
(* Host A has plugin 1 and host B plugin 2 in their plugins directories;   *)
(* a loaded plugin calls back while the host is in its update or           *)
(* handle_message entry (on the main thread) or from a thread it spawned.  *)
(***************************************************************************)
PluginOf(h) == IF h = "A" THEN 1 ELSE 2

ConfigKeys == {"key"}

\* `*c.borrow_mut() = Some(..)` on the thread that makes the bridge
set_current(current, t, target) == [current EXCEPT ![t] = target]

\* bridge_register_service called on thread t
bridge_register_service(hs, current, t, d, handle) ==
    IF current[t] = NoHost THEN [hosts |-> hs, result |-> 1]
    ELSE LET r == register(hs[current[t]].services, d, handle)
         IN  [hosts |-> [hs EXCEPT ![current[t]].services = r.services],
              result |-> IF r.result = Ok THEN 0 ELSE 1]

\* bridge_lookup_service called on thread t
bridge_lookup_service(hs, current, t, service_id) ==
    IF current[t] = NoHost THEN None
    ELSE lookup(hs[current[t]].services, service_id)

\* bridge_config_set called on thread t, with DefaultCallbacks::config_set
bridge_config_set(hs, current, t, key) ==
    IF current[t] = NoHost THEN [hosts |-> hs, result |-> 1]
    ELSE [hosts |-> [hs EXCEPT ![current[t]].config = @ \cup {key}], result |-> 0]

\* bridge_config_get called on thread t: the key's value, named by the key
bridge_config_get(hs, current, t, key) ==
    IF current[t] = NoHost THEN None
    ELSE IF key \in hs[current[t]].config THEN Some(key) ELSE None

\* the plugin's init registers what the plugin provides, on thread t
RECURSIVE init_registers(_, _, _, _, _)
init_registers(hs, current, t, provider, ids) ==
    IF ids = {} THEN hs
    ELSE LET id == CHOOSE x \in ids : TRUE
         IN  init_registers(
                 bridge_register_service(hs, current, t,
                     ServiceDescriptor(id, provider), provider).hosts,
                 current, t, provider, ids \ {id})

\* PluginHost::with_callbacks, on the main thread
HostNew(h) ==
    /\ ~hosts[h].alive
    /\ hosts' = [hosts EXCEPT ![h].alive = TRUE]
    /\ CURRENT_CALLBACKS' = set_current(CURRENT_CALLBACKS, "main", h)
    /\ CURRENT_SERVICE_REGISTRY' = set_current(CURRENT_SERVICE_REGISTRY, "main", h)
    /\ ret' = Ok
    /\ UNCHANGED <<services, hostVars, disk, calls, concVars>>

\* enable of the host's plugin, on the main thread: a new bridge is made and
\* the plugin's init runs
HostEnable(h) ==
    /\ hosts[h].alive
    /\ PluginOf(h) \notin hosts[h].loaded
    /\ CURRENT_CALLBACKS' = set_current(CURRENT_CALLBACKS, "main", h)
    /\ CURRENT_SERVICE_REGISTRY' = set_current(CURRENT_SERVICE_REGISTRY, "main", h)
    /\ hosts' = [init_registers(hosts, CURRENT_SERVICE_REGISTRY', "main",
                                PluginOf(h), ProvidesOf(PluginOf(h)))
                    EXCEPT ![h].loaded = @ \cup {PluginOf(h)}]
    /\ ret' = Ok
    /\ UNCHANGED <<services, hostVars, disk, calls, concVars>>

\* disable of the host's plugin
HostDisable(h) ==
    /\ hosts[h].alive
    /\ hosts' = [hosts EXCEPT ![h].loaded = @ \ {PluginOf(h)}]
    /\ ret' = Ok
    /\ UNCHANGED <<services, hostVars, disk, calls, concVars,
                   CURRENT_CALLBACKS, CURRENT_SERVICE_REGISTRY>>

\* the loaded plugin of host h calls a function of its HostVTable on thread t
CallRegisterService(h, t, id) ==
    /\ PluginOf(h) \in hosts[h].loaded
    /\ LET r == bridge_register_service(hosts, CURRENT_SERVICE_REGISTRY, t,
                    ServiceDescriptor(id, PluginOf(h)), PluginOf(h))
       IN  /\ hosts' = r.hosts
           /\ ret' = Count(r.result)
    /\ UNCHANGED <<services, hostVars, disk, calls, concVars,
                   CURRENT_CALLBACKS, CURRENT_SERVICE_REGISTRY>>

CallLookupService(h, t, id) ==
    /\ PluginOf(h) \in hosts[h].loaded
    /\ ret' = bridge_lookup_service(hosts, CURRENT_SERVICE_REGISTRY, t, id)
    /\ UNCHANGED <<services, hostVars, envVars, concVars>>

CallConfigSet(h, t, key) ==
    /\ PluginOf(h) \in hosts[h].loaded
    /\ LET r == bridge_config_set(hosts, CURRENT_CALLBACKS, t, key)
       IN  /\ hosts' = r.hosts
           /\ ret' = Count(r.result)
    /\ UNCHANGED <<services, hostVars, disk, calls, concVars,
                   CURRENT_CALLBACKS, CURRENT_SERVICE_REGISTRY>>

CallConfigGet(h, t, key) ==
    /\ PluginOf(h) \in hosts[h].loaded
    /\ ret' = bridge_config_get(hosts, CURRENT_CALLBACKS, t, key)
    /\ UNCHANGED <<services, hostVars, envVars, concVars>>

BridgeInit ==
    /\ services = EmptyRegistry
    /\ ret = Ok
    /\ HostIdle
    /\ ConcIdle

BridgeNext ==
    \E h \in HostNames :
        \/ HostNew(h)
        \/ HostEnable(h)
        \/ HostDisable(h)
        \/ \E t \in OsThreads :
              \/ \E id \in ServiceIds : CallRegisterService(h, t, id)
              \/ \E id \in ServiceIds : CallLookupService(h, t, id)
              \/ \E key \in ConfigKeys : CallConfigSet(h, t, key)
              \/ \E key \in ConfigKeys : CallConfigGet(h, t, key)

SpecBridge == BridgeInit /\ [][BridgeNext]_vars

\* the thread-locals a callback of a plugin of host h is to find: host h
Installed_by(h) == [t \in OsThreads |-> h]

\* C32: a callback (register_service, lookup_service, config_set,
\* config_get) that the loaded plugin of host h makes on a thread it spawned
\* has the effect and the result it has on the thread that enabled the
\* plugin: it acts on the registry and the callbacks object of host h.
C32_WorkerThreadDispatch ==
    [][\A h \in HostNames :
          /\ \A id \in ServiceIds :
                /\ CallRegisterService(h, "worker", id)
                   => LET r == bridge_register_service(hosts, Installed_by(h), "worker",
                                   ServiceDescriptor(id, PluginOf(h)), PluginOf(h))
                      IN  hosts' = r.hosts /\ ret' = Count(r.result)
                /\ CallLookupService(h, "worker", id)
                   => ret' = lookup(hosts[h].services, id)
          /\ \A key \in ConfigKeys :
                /\ CallConfigSet(h, "worker", key)
                   => /\ key \in hosts'[h].config
                      /\ ret' = Count(0)
                /\ CallConfigGet(h, "worker", key)
                   => ret' = (IF key \in hosts[h].config THEN Some(key) ELSE None)]_vars

\* C33: with the hosts A and B both alive, a callback that the loaded
\* plugin of one host makes on the main thread, while that host is in one of
\* the plugin's entries, leaves the registry and the callbacks object of
\* the other host as they were, and what it returns is read from its own
\* host: a lookup gives what the own registry holds, a config_get what the
\* own callbacks object holds.
C33_HostsIsolated ==
    [][\A h \in HostNames : \A other \in HostNames \ {h} :
          (hosts[h].alive /\ hosts[other].alive)
          => /\ \A id \in ServiceIds :
                   /\ CallRegisterService(h, "main", id) => hosts'[other] = hosts[other]
                   /\ CallLookupService(h, "main", id)
                      => ret' = lookup(hosts[h].services, id)
             /\ \A key \in ConfigKeys :
                   /\ CallConfigSet(h, "main", key) => hosts'[other] = hosts[other]
                   /\ CallConfigGet(h, "main", key)
                      => ret' = (IF key \in hosts[h].config THEN Some(key) ELSE None)]_vars

(***************************************************************************)
(* Inventories with a depends_on cycle: the plugins 1 and 2 depending on   *)
(* each other, each a package of its own or both of package 3.             *)
(***************************************************************************)
CycleShapes ==
    {inv \in Shapes : /\ DOMAIN inv.plugins = 1..4
                      /\ inv.plugins[2].manifest.depends_on = <<1>>}
    \cup {Inventory(1 :> Plugin(<<2>>, 3) @@ 2 :> Plugin(<<1>>, 3),
                    3 :> InstalledPackage(<<1, 2>>, Path(3, "", 0)))}

CycleInit ==
    /\ \E inv \in CycleShapes :
          /\ plugins = OwnPackage(inv).plugins
          /\ packages = inv.packages
          /\ disk = Directory(inv)
    /\ HostCreated

CycleNext ==
    \E id \in 1..3 :
        \/ Enable(id)
        \/ EnablePackage(id)
        \/ EnableWithDependencies(id)
        \/ Disable(id)

SpecCycle == CycleInit /\ [][CycleNext]_vars

\* the depends_on edges between loaded plugins
LoadedGraph == [id \in DOMAIN loaded \cap DOMAIN plugins |-> plugins[id]]

\* C34: in every reachable state the depends_on graph restricted to the
\* loaded plugins has no cycle: no loaded plugin depends on itself through
\* loaded plugins, whether the plugins were loaded by enable, by
\* enable_package or by enable_with_dependencies.
C34_NoLoadedCycle ==
    \A id \in DOMAIN LoadedGraph :
        id \notin Closure(LoadedGraph, DependsOn(LoadedGraph, id))

(***************************************************************************)
(* Every method of the registry called from several threads.  The reading  *)
(* methods (lookup, lookup_versioned, has_service, list, len) take the     *)
(* read lock, compute their result from the map and drop the guard;        *)
(* unregister_provider, holding the write lock, collects the keys of the   *)
(* provider and removes them one by one.  A reading call keeps, next to    *)
(* its arguments, the entry its service id had when the call began.        *)
(***************************************************************************)
ReadVersions == {<<1, 0, 0>>, <<2, 0, 0>>}

\* the service id the reading calls ask for
ReadIds == {"svc.a"}

ReadCalls ==
    {[op |-> op, service_id |-> s, min_version |-> ConcVersion] :
        op \in {"lookup", "has_service"}, s \in ReadIds}
    \cup {[op |-> "lookup_versioned", service_id |-> s, min_version |-> v] :
             s \in ReadIds, v \in ReadVersions}
    \cup {[op |-> op, service_id |-> "", min_version |-> ConcVersion] :
             op \in {"list", "len"}}

\* what the body of a reading method returns
read(svcs, call) ==
    CASE call.op = "lookup" -> lookup(svcs, call.service_id)
      [] call.op = "lookup_versioned" ->
             lookup_versioned(svcs, call.service_id, call.min_version)
      [] call.op = "has_service" -> Bool(has_service(svcs, call.service_id))
      [] call.op = "list" -> Listing(list(svcs))
      [] OTHER -> Count(len(svcs))

ConcCallRead(t, call) ==
    /\ thr[t].pc = "idle"
    /\ thr' = [thr EXCEPT ![t] =
                  [pc |-> "read_lock", call |-> call,
                   at_call |-> IF call.service_id \in DOMAIN services
                               THEN services[call.service_id] ELSE None]]
    /\ UNCHANGED <<services, ret, hostVars, envVars, lock, wins>>

ConcAcquireReader(t) ==
    /\ thr[t].pc = "read_lock"
    /\ read_available(lock)
    /\ lock' = [lock EXCEPT !.readers = @ \cup {t}]
    /\ thr' = [thr EXCEPT ![t].pc = "read_body"]
    /\ UNCHANGED <<services, ret, hostVars, envVars, wins>>

ConcRead(t) ==
    /\ thr[t].pc = "read_body"
    /\ ret' = read(services, thr[t].call)
    /\ lock' = release_read(lock, t)
    /\ thr' = [thr EXCEPT ![t] = [pc |-> "idle"]]
    /\ UNCHANGED <<services, hostVars, envVars, wins>>

\* unregister_provider: `let to_remove = services.iter().filter(..).collect()`
ConcCollect(t) ==
    /\ thr[t].pc = "unregister_body"
    /\ thr' = [thr EXCEPT ![t] =
                  [pc |-> "unregister_remove", provider_id |-> thr[t].provider_id,
                   to_remove |-> {s \in DOMAIN services :
                                     ProviderOf(services, s) = thr[t].provider_id},
                   removed |-> {}]]
    /\ UNCHANGED <<services, ret, hostVars, envVars, lock, wins>>

\* unregister_provider: one turn of `for key in to_remove { services.remove(&key) }`,
\* or the end of the loop and of the method
ConcRemove(t) ==
    /\ thr[t].pc = "unregister_remove"
    /\ IF thr[t].to_remove = {}
       THEN /\ ret' = Unit(thr[t].removed)
            /\ lock' = release_write(lock)
            /\ thr' = [thr EXCEPT ![t] = [pc |-> "idle"]]
            /\ UNCHANGED <<services, wins>>
       ELSE /\ \E key \in thr[t].to_remove :
                  /\ services' = Without(services, {key})
                  /\ wins' = [wins EXCEPT ![key] = 0]
                  /\ thr' = [thr EXCEPT ![t].to_remove = @ \ {key},
                                        ![t].removed = @ \cup {key}]
            /\ UNCHANGED <<ret, lock>>
    /\ UNCHANGED <<hostVars, envVars>>

\* a thread registers the services of one plugin, under the plugin's id
OwnDescriptors(t) == {d \in ConcDescriptors : d.provider_id = HandleOf(t)}

\* the steps of a thread that wait for the lock, and those it takes holding it
LinAcquire(t) ==
    \/ ConcAcquireWrite(t)
    \/ ConcAcquireReader(t)

LinProceed(t) ==
    \/ ConcRegisterCheck(t)
    \/ ConcRegisterInsert(t)
    \/ ConcCollect(t)
    \/ ConcRemove(t)
    \/ ConcRead(t)

LinNext ==
    \E t \in Threads :
        \/ \E d \in OwnDescriptors(t) : ConcCallRegister(t, d)
        \/ \E p \in Providers : ConcCallUnregisterProvider(t, p)
        \/ \E call \in ReadCalls : ConcCallRead(t, call)
        \/ LinAcquire(t)
        \/ LinProceed(t)

SpecRegLin == ConcInit /\ [][LinNext]_vars

\* a thread that holds the lock goes on, and a thread that waits for the
\* lock gets it if the lock is free again and again
SpecRegLinFair ==
    /\ SpecRegLin
    /\ \A t \in Threads : WF_vars(LinProceed(t)) /\ SF_vars(LinAcquire(t))

\* where a thread is between taking a lock and dropping it
WritePcs == {"register_check", "register_insert", "unregister_body", "unregister_remove"}
ReadPcs == {"read_lock", "read_body"}

\* what a reading call for a service id returns when it sees this entry
Observed(call, entry) ==
    CASE call.op = "lookup" -> Some(entry.handle)
      [] call.op = "has_service" -> Bool(TRUE)
      [] OTHER -> IF Satisfies(entry.descriptor.version, call.min_version)
                  THEN Found(entry.handle)
                  ELSE Err("VersionMismatch", call.service_id)

\* this step is a turn of the removal loop of an unregister_provider(p)
Removes(p) ==
    \E u \in Threads :
        /\ thr[u].pc = "unregister_remove"
        /\ thr[u].provider_id = p
        /\ thr'[u] # thr[u]

\* C35: a register that returns Ok has put its entry into the map before it
\* returns; an entry stays in the map, as it is, through every step that is
\* not a removal by unregister_provider of its provider; so a lookup,
\* lookup_versioned or has_service that begins, on any thread, when the
\* entry is there returns what the entry gives (its handle, true, or
\* VersionMismatch for an incompatible version) unless such a removal came
\* in between; and a reading call returns what the whole map gives at a
\* moment when no thread is inside register or unregister_provider, so it
\* never sees an entry half inserted or a provider half removed.
C35_RegisterVisible ==
    [][/\ \A t \in Threads :
             /\ (thr[t].pc = "register_insert" /\ thr'[t].pc = "idle")
                => /\ ret' = Ok
                   /\ thr[t].d.id \in DOMAIN services'
                   /\ services'[thr[t].d.id] = RegisteredService(thr[t].d, HandleOf(t))
             /\ (thr[t].pc = "idle" /\ thr'[t].pc = "read_lock")
                => thr'[t].at_call =
                      (IF thr'[t].call.service_id \in DOMAIN services
                       THEN services[thr'[t].call.service_id] ELSE None)
             /\ (thr[t].pc = "read_body" /\ thr'[t].pc = "idle")
                => /\ \A u \in Threads : thr[u].pc \notin WritePcs
                   /\ ret' = read(services, thr[t].call)
                   /\ services' = services
                   /\ (/\ thr[t].at_call # None
                       /\ thr[t].call.service_id \in DOMAIN services
                       /\ services[thr[t].call.service_id] = thr[t].at_call)
                      => ret' = Observed(thr[t].call, thr[t].at_call)
       /\ \A s \in DOMAIN services :
             ~Removes(ProviderOf(services, s))
             => /\ s \in DOMAIN services'
                /\ services'[s] = services[s]]_vars

\* thread t1 has just been given the handle thread t2 registered for svc.a,
\* by a reading call that began while t2 was waiting to unregister another
\* provider
C35_Witness ==
    /\ thr["t1"].pc = "idle"
    /\ thr["t2"].pc = "unregister_lock"
    /\ ret \in {Some(HandleOf("t2")), Found(HandleOf("t2"))}
    /\ "svc.a" \in DOMAIN services
    /\ services["svc.a"].handle = HandleOf("t2")
    /\ thr["t2"].provider_id # ProviderOf(services, "svc.a")
    /\ "svc.b" \notin DOMAIN services

OrderShapes ==
    {inv \in CascadeShapes : DOMAIN inv.plugins = 1..4
                             /\ inv.plugins[1].manifest.depends_on = <<2, 3>>}
    \cup {Inventory(1 :> Plugin(<<4, 2>>, 1) @@ 2 :> Plugin(<<3>>, 2)
                      @@ 3 :> Plugin(<<4>>, 3) @@ 4 :> Plugin(<< >>, 4),
                    SinglePackages(1..4))}

OrderInit ==
    /\ \E inv \in OrderShapes :
          /\ plugins = OwnPackage(inv).plugins
          /\ packages = inv.packages
          /\ disk = Directory(inv)
    /\ HostCreated

OrderNext ==
    \E plugin_id \in PluginIds :
        \/ EnableWithDependencies(plugin_id)
        \/ DisableWithDependents(plugin_id)

SpecOrder == OrderInit /\ [][OrderNext]_vars

\* C37: for loaded plugins X and Y that disable_with_dependents(T) unloads
\* as dependents of T, if X lists Y in depends_on then the cleanup entry of
\* X is called, and has returned, before the cleanup entry of Y is called,
\* in whatever order the plugins map is walked.
C37_DependentsInReverseOrder ==
    [][\A T \in PluginIds :
          IsCallOf(calls', "disable_with_dependents", T)
          => \A X \in Dependents(plugins, T) \cap DOMAIN loaded :
                \A Y \in Dependents(plugins, T) \cap DOMAIN loaded
                         \cap DependsOn(plugins, X) :
                   /\ CallsOf(calls', "cleanup", X) # {}
                   /\ CallsOf(calls', "cleanup", Y) # {}
                   /\ \A j \in CallsOf(calls', "cleanup", X) :
                         \A k \in CallsOf(calls', "cleanup", Y) : j < k]_vars

(***************************************************************************)
(* The enabled flags against the loaded map.  scan_installed clears and    *)
(* rebuilds the plugins inventory, every plugin with enabled = false, and  *)
(* leaves the loaded map alone.                                            *)
(***************************************************************************)
\* C38: in every state reachable through scan_installed, enable,
\* enable_with_dependencies, disable, disable_with_dependents and
\* uninstall_package, an installed plugin's enabled flag is true iff the
\* plugin is in the loaded map, and every loaded id is in the plugins
\* inventory; a rescan while plugins are loaded keeps this
C38_EnabledIffLoaded ==
    /\ \A id \in DOMAIN plugins : plugins[id].enabled <=> id \in DOMAIN loaded
    /\ DOMAIN loaded \subseteq DOMAIN plugins

(***************************************************************************)
(* The life of a LoadedPlugin in the hands of a caller of PluginLoader:    *)
(* load or load_and_init makes it, init, update, send_message and cleanup  *)
(* are called on it in any order, and it is dropped.  `loaded` holds the   *)
(* LoadedPlugin values the caller owns and `calls` is the log of the whole *)
(* run: each method logs itself and then the entries of the plugin binary  *)
(* it calls.                                                               *)
(***************************************************************************)
MaxCalls == 10
LoaderIds == {1, 2}

\* LoadedPlugin::init on the plugin the caller holds under plugin_id
LoadedPlugin_init(hs, plugin_id, behaviour) ==
    LET plugin == hs.loaded[plugin_id]
        i == init(plugin, hs.services, plugin_id, behaviour)
        made == IF plugin.initialized THEN << >>
                ELSE (IF behaviour = "InitFailed" THEN << >>
                      ELSE register_calls(hs.services, plugin_id,
                                          ProvidesOf(plugin_id)))
                     \o <<Called("init", plugin_id,
                                 IF behaviour = "InitOk" THEN 0 ELSE 1)>>
    IN  Outcome([called(hs, made) EXCEPT
                    !.loaded = [@ EXCEPT ![plugin_id] = i.plugin],
                    !.services = i.services],
                i.result)

\* cleanup that calls the plugin's cleanup entry whatever `initialized` is
LoadedPlugin_cleanup_unguarded(hs, plugin_id) ==
    [called(hs, <<Called("cleanup", plugin_id, 0)>>) EXCEPT
        !.loaded = [@ EXCEPT ![plugin_id] = cleanup(@)]]

\* LoadedPlugin::cleanup
LoadedPlugin_cleanup(hs, plugin_id) ==
    IF hs.loaded[plugin_id].initialized
    THEN [called(hs, <<Called("cleanup", plugin_id, 0)>>) EXCEPT
             !.loaded = [@ EXCEPT ![plugin_id] = cleanup(@)]]
    ELSE hs

\* Drop for LoadedPlugin: cleanup(), then the fields go, the library first
LoadedPlugin_drop(hs, plugin_id) ==
    [called(LoadedPlugin_cleanup(hs, plugin_id), <<Called("drop", plugin_id, 0)>>)
        EXCEPT !.loaded = Without(@, {plugin_id})]

\* PluginLoader::load: a LoadedPlugin that is not initialized, or the error
PluginLoader_load(hs, plugin_id) ==
    {Outcome(called(hs, load(plugin_id, kind)), Err(kind, plugin_id))
        : kind \in LoadFailures}
    \cup
    {Outcome([called(hs, load(plugin_id, "Ok")) EXCEPT
                 !.loaded = (plugin_id :> LoadedPlugin(hs.callback_bridge)) @@ @],
             Ok)}

\* PluginLoader::load_and_init: `self.load(path, manifest)?`, then
\* `plugin.init()?`, which drops the plugin when it leaves with the error
load_and_init(hs, plugin_id) ==
    UNION {IF o.result # Ok THEN {o}
           ELSE {LET i == LoadedPlugin_init(o.state, plugin_id, behaviour)
                 IN  IF i.result = Ok THEN i
                     ELSE Outcome(LoadedPlugin_drop(i.state, plugin_id), i.result)
                 : behaviour \in InitBehaviours}
           : o \in PluginLoader_load(hs, plugin_id)}

\* the step is applied and its calls are added to the log of the run
LoaderApply(o) ==
    /\ Len(calls) + Len(o.state.calls) <= MaxCalls
    /\ loaded' = o.state.loaded
    /\ services' = o.state.services
    /\ calls' = calls \o o.state.calls
    /\ ret' = o.result
    /\ UNCHANGED <<plugins, packages, callback_bridge, install_status, registry,
                   disk, concVars, processVars>>

LoaderLoad(plugin_id) ==
    /\ plugin_id \notin DOMAIN loaded
    /\ \E o \in PluginLoader_load(Entered("PluginLoader::load", plugin_id),
                                  plugin_id) : LoaderApply(o)

LoaderLoadAndInit(plugin_id) ==
    /\ plugin_id \notin DOMAIN loaded
    /\ \E o \in load_and_init(Entered("PluginLoader::load_and_init", plugin_id),
                              plugin_id) : LoaderApply(o)

LoaderInit(plugin_id) ==
    /\ plugin_id \in DOMAIN loaded
    /\ \E behaviour \in InitBehaviours :
          LoaderApply(LoadedPlugin_init(Entered("LoadedPlugin::init", plugin_id),
                                        plugin_id, behaviour))

LoaderUpdate(plugin_id) ==
    /\ plugin_id \in DOMAIN loaded
    /\ \E rc \in {0, 1} :
          LoaderApply(update(Entered("LoadedPlugin::update", plugin_id),
                             plugin_id, rc))

LoaderSendMessage(plugin_id) ==
    /\ plugin_id \in DOMAIN loaded
    /\ \E o \in send_message_outcomes(
                    Entered("LoadedPlugin::send_message", plugin_id), plugin_id) :
          LoaderApply(o)

LoaderCleanup(plugin_id) ==
    /\ plugin_id \in DOMAIN loaded
    /\ LoaderApply(Outcome(LoadedPlugin_cleanup(
                               Entered("LoadedPlugin::cleanup", plugin_id),
                               plugin_id), Ok))

LoaderDrop(plugin_id) ==
    /\ plugin_id \in DOMAIN loaded
    /\ LoaderApply(Outcome(LoadedPlugin_drop(
                               Entered("LoadedPlugin::drop", plugin_id),
                               plugin_id), Ok))

LoaderCreated ==
    /\ plugins = EmptyMap
    /\ packages = EmptyMap
    /\ disk = EmptyMap
    /\ HostCreated

LoaderNext ==
    \E id \in LoaderIds :
        \/ LoaderLoad(id)
        \/ LoaderLoadAndInit(id)
        \/ LoaderInit(id)
        \/ LoaderUpdate(id)
        \/ LoaderSendMessage(id)
        \/ LoaderCleanup(id)
        \/ LoaderDrop(id)

SpecLoader == LoaderCreated /\ [][LoaderNext]_vars

\* the init of this plugin that returned 0 and that the call at k follows
\* with no cleanup of the plugin and no drop of its library in between
InitOf(cs, k) ==
    {j \in 1..(k - 1) :
        /\ cs[j].entry = "init" /\ cs[j].plugin = cs[k].plugin /\ cs[j].rc = 0
        /\ \A m \in (j + 1)..(k - 1) :
              ~(cs[m].plugin = cs[k].plugin /\ cs[m].entry \in {"cleanup", "drop"})}

\* the method of LoadedPlugin or PluginLoader this step is a call of
StepOf(method, plugin_id) ==
    /\ Len(calls') > Len(calls)
    /\ calls'[Len(calls) + 1].entry = method
    /\ calls'[Len(calls) + 1].plugin = plugin_id

\* the step called nothing in the plugin: its log is the method alone
NothingCalled == Len(calls') = Len(calls) + 1

\* C39: for each init of a loaded plugin that returned 0, the cleanup entry
\* is called at most once, and exactly once by the time the LoadedPlugin is
\* dropped (cleanup() and then the drop call it once); it is never called
\* for a plugin whose init did not succeed; and it is called before the
\* library of the plugin is released.
C39_CleanupOncePerInit ==
    \A k \in DOMAIN calls :
        /\ calls[k].entry = "cleanup" => InitOf(calls, k) # {}
        /\ calls[k].entry = "drop"
           => \A j \in 1..(k - 1) :
                 (calls[j].entry = "init" /\ calls[j].plugin = calls[k].plugin
                                          /\ calls[j].rc = 0)
                 => \E m \in (j + 1)..(k - 1) :
                       /\ calls[m].entry = "cleanup"
                       /\ calls[m].plugin = calls[k].plugin
                       /\ j \in InitOf(calls, m)

\* a plugin was initialized, cleaned up by cleanup() and then dropped: the
\* drop released the library and called nothing else
C39_Witness ==
    \E k \in DOMAIN calls :
        /\ calls[k].entry = "LoadedPlugin::cleanup"
        /\ k + 3 \in DOMAIN calls
        /\ calls[k + 1].entry = "cleanup"
        /\ calls[k + 2].entry = "LoadedPlugin::drop"
        /\ calls[k + 2].plugin = calls[k].plugin
        /\ calls[k + 3].entry = "drop"

\* C40: the update and handle_message entries of a plugin are called only
\* after its init returned 0 and before its cleanup is called; update and
\* send_message on a LoadedPlugin that is not initialized return NotEnabled
\* and call nothing in the plugin; init on an initialized LoadedPlugin
\* returns Ok and does not call the plugin's init again.
C40_CalledOnlyWhileInitialized ==
    /\ [](\A k \in DOMAIN calls :
              calls[k].entry \in {"update", "handle_message"}
              => InitOf(calls, k) # {})
    /\ [][\A id \in DOMAIN loaded :
             /\ (/\ ~loaded[id].initialized
                 /\ \/ StepOf("LoadedPlugin::update", id)
                    \/ StepOf("LoadedPlugin::send_message", id))
                => /\ ret' = Err("NotEnabled", id)
                   /\ NothingCalled
             /\ (loaded[id].initialized /\ StepOf("LoadedPlugin::init", id))
                => /\ ret' = Ok
                   /\ NothingCalled
                   /\ loaded' = loaded]_vars

\* update was refused on the plugin before its init, called after it, and
\* a second init called nothing
C40_Witness ==
    \E a, b, c \in DOMAIN calls :
        /\ a < b /\ b < c /\ c = Len(calls)
        /\ calls[a].entry = "LoadedPlugin::update"
        /\ calls[a + 1].entry = "LoadedPlugin::init"
        /\ calls[b].entry = "update" /\ calls[b].plugin = calls[a].plugin
        /\ calls[c].entry = "LoadedPlugin::init"
        /\ calls[c].plugin = calls[a].plugin
        /\ calls[c - 1].entry = "update"
        /\ ret = Ok

====
